---------------------------- MODULE Spec2Model ----------------------------
(***************************************************************************)
(* Guard scheduling system: the allocation engine                          *)
(* (backend/guards/allocation.py) and the attendance check-in endpoints    *)
(* (backend/guards/views.py, backend/guards/serializers.py).               *)
(*                                                                         *)
(* Dates are day numbers; an instant is a number of minutes, day d at      *)
(* hh:mm being d*1440 + hh*60 + mm (local time; the configured zone has    *)
(* no DST, so local wall-clock order is instant order).                    *)
(* Scores are kept exact: score_guard_for_shift's float total is modelled  *)
(* as the integer total * 10 * len(shift_skills).                          *)
(***************************************************************************)
EXTENDS Integers, Sequences, FiniteSets, TLC

VARIABLES
    shifts,       \* Shift table: id -> row
    attendance,   \* AttendanceRecord table: sequence of rows, index = pk
    sent,         \* channel-layer messages that were delivered
    clock,        \* server time (timezone.now()), an instant
    staff_can_force, \* settings.ATTENDANCE_ALLOW_FORCE_FOR_STAFF
    pc,           \* per request: position in its handler
    loc,          \* per request: the handler's local variables
    resp          \* per request: the last response returned

vars == <<shifts, attendance, sent, clock, staff_can_force, pc, loc, resp>>

None == 0
Procs == {"A", "B"}

----------------------------------------------------------------------------
(* Program constants *)

MAX_CONSECUTIVE_DAYS == 6
RECENT_FAIRNESS_WINDOW_DAYS == 7
WEIGHT_SKILL_MATCH_x10 == 50
WEIGHT_EXPERIENCE_x10 == 5
WEIGHT_CONSECUTIVE_PENALTY_x10 == 10
WEIGHT_FAIRNESS_PENALTY_x10 == 8
EXPERIENCE_CAP == 20
ATTENDANCE_ALLOWED_EARLY_MINUTES == 15
ATTENDANCE_ALLOWED_LATE_MINUTES == 60
ATTENDANCE_DATE_TOLERANCE_DAYS == 1
DAY == 1440

----------------------------------------------------------------------------
(* Users (CustomUser + GuardProfile rows; fixed during the runs modelled) *)

Users == {1, 2, 3, 4}
is_guard == [u \in Users |-> u \in {1, 2}]
is_staff == [u \in Users |-> u = 3]
\* users that have a GuardProfile row
has_profile == [u \in Users |-> u \in {1, 2, 3}]
profile_skills == [u \in Users |->
    CASE u = 1 -> <<"Armed", " cctv ">>
      [] u = 2 -> <<"">>
      [] OTHER -> <<>>]
experience_years == [u \in Users |-> CASE u = 1 -> 5 [] u = 2 -> 3 [] OTHER -> 0]
\* GuardProfile.max_consecutive_days (default 6): one guard above, one below
max_consecutive_days == [u \in Users |-> CASE u = 1 -> 8 [] u = 2 -> 3 [] OTHER -> 6]

(* Premises: pk and uuid (a uuid is modelled as a number above 100) *)
Premises == {1, 2}
premise_uuid == [p \in Premises |-> 100 + p]

----------------------------------------------------------------------------
(* SkillSet: a comma-separated string is the sequence of its pieces *)

Strip(t) ==
    CASE t = " cctv " -> "cctv"
      [] t = " armed" -> "armed"
      [] t = " " -> ""
      [] OTHER -> t

Lower(t) ==
    CASE t = "Armed" -> "armed"
      [] t = "CCTV" -> "cctv"
      [] OTHER -> t

RECURSIVE _split_tags(_)
_split_tags(s) ==
    IF s = <<>> THEN <<>>
    ELSE LET t == Head(s)
             rest == _split_tags(Tail(s))
         IN IF Strip(t) # "" THEN <<Lower(Strip(t))>> \o rest ELSE rest

SeqRange(q) == {q[i] : i \in 1..Len(q)}

Min(a, b) == IF a <= b THEN a ELSE b

----------------------------------------------------------------------------
(* allocation.py *)

\* Shift.objects.filter(date=d, assigned_guard=g).exists()
HasAssignmentOn(sh, g, d) ==
    \E s \in DOMAIN sh : sh[s].date = d /\ sh[s].assigned_guard = g

RECURSIVE ConsecWalk(_, _, _, _)
ConsecWalk(sh, g, check_date, days) ==
    IF HasAssignmentOn(sh, g, check_date)
    THEN IF days + 1 >= MAX_CONSECUTIVE_DAYS
         THEN days + 1
         ELSE ConsecWalk(sh, g, check_date - 1, days + 1)
    ELSE days

\* the number of exists() queries the walk issues
RECURSIVE ConsecChecks(_, _, _, _)
ConsecChecks(sh, g, check_date, days) ==
    IF HasAssignmentOn(sh, g, check_date)
    THEN IF days + 1 >= MAX_CONSECUTIVE_DAYS
         THEN 1
         ELSE 1 + ConsecChecks(sh, g, check_date - 1, days + 1)
    ELSE 1

RECURSIVE WalkUncapped(_, _, _, _)
WalkUncapped(sh, g, check_date, days) ==
    IF HasAssignmentOn(sh, g, check_date)
    THEN WalkUncapped(sh, g, check_date - 1, days + 1)
    ELSE days

_consecutive_days_before_Uncapped(sh, g, ref_date) == WalkUncapped(sh, g, ref_date - 1, 0)

_consecutive_days_before(sh, g, ref_date) == ConsecWalk(sh, g, ref_date - 1, 0)

\* mutant: start = ref_date - window_days, a window of eight dates
_recent_assignments_count_WindowPlusOne(sh, g, ref_date) ==
    Cardinality({s \in DOMAIN sh :
        /\ sh[s].date >= ref_date - RECENT_FAIRNESS_WINDOW_DAYS
        /\ sh[s].date <= ref_date
        /\ sh[s].assigned_guard = g})

_recent_assignments_count(sh, g, ref_date) ==
    Cardinality({s \in DOMAIN sh :
        /\ sh[s].date >= ref_date - (RECENT_FAIRNESS_WINDOW_DAYS - 1)
        /\ sh[s].date <= ref_date
        /\ sh[s].assigned_guard = g})

\* mutant: the exclusion forgets .exclude(assigned_guard__isnull=True) and
\* the date filter's effect, excluding nobody
SameDayAssigned_NoExclusion(sh, s) == {}

\* guards holding another shift on the shift's date (the excluded ids)
SameDayAssigned(sh, s) ==
    {sh[t].assigned_guard : t \in {x \in DOMAIN sh :
        x # s /\ sh[x].date = sh[s].date /\ sh[x].assigned_guard # None}}

\* mutant: the cap compared with > instead of >=
CandidateViable_OffByOne(sh, g, s) ==
    ~(_consecutive_days_before(sh, g, sh[s].date) > MAX_CONSECUTIVE_DAYS)

CandidateViable(sh, g, s) ==
    ~(_consecutive_days_before(sh, g, sh[s].date) >= MAX_CONSECUTIVE_DAYS)

find_candidates_set(sh, s) ==
    {g \in Users : /\ is_guard[g]
                   /\ g \notin SameDayAssigned(sh, s)
                   /\ CandidateViable(sh, g, s)}

RECURSIVE SetToSortedSeq(_)
SetToSortedSeq(S) ==
    IF S = {} THEN <<>>
    ELSE LET m == CHOOSE x \in S : \A y \in S : x <= y
         IN <<m>> \o SetToSortedSeq(S \ {m})

\* User.objects.filter(is_guard=True) carries no order_by: rows come in
\* primary-key order
find_candidates(sh, s) == SetToSortedSeq(find_candidates_set(sh, s))

\* number of entries of the required list that the guard holds
Matches(shift_skills, guard_skills) ==
    Cardinality({i \in 1..Len(shift_skills) : shift_skills[i] \in SeqRange(guard_skills)})

\* skill_frac as the pair <<numerator, denominator>>
skill_frac(sh, g, s) ==
    LET guard_skills == _split_tags(profile_skills[g])
        shift_skills == _split_tags(sh[s].required_skills)
    IN IF shift_skills = <<>> THEN <<1, 1>>
       ELSE <<Matches(shift_skills, guard_skills), Len(shift_skills)>>

\* total * 10 * denominator of skill_frac
score_guard_for_shift(sh, g, s) ==
    LET f == skill_frac(sh, g, s)
        L == f[2]
    IN f[1] * WEIGHT_SKILL_MATCH_x10
       + L * ( Min(experience_years[g], EXPERIENCE_CAP) * WEIGHT_EXPERIENCE_x10
             - _consecutive_days_before(sh, g, sh[s].date) * WEIGHT_CONSECUTIVE_PENALTY_x10
             - _recent_assignments_count(sh, g, sh[s].date) * WEIGHT_FAIRNESS_PENALTY_x10 )

\* the breakdown dict; the four score terms and the total are scaled like
\* the total (times 10 * denominator of skill_frac)
breakdown(sh, g, s) ==
    LET f == skill_frac(sh, g, s)
        L == f[2]
        consecutive_before == _consecutive_days_before(sh, g, sh[s].date)
        fairness_recent == _recent_assignments_count(sh, g, sh[s].date)
    IN [skill_frac |-> f,
        skill_score |-> f[1] * WEIGHT_SKILL_MATCH_x10,
        experience_years |-> experience_years[g],
        experience_score |-> L * Min(experience_years[g], EXPERIENCE_CAP) * WEIGHT_EXPERIENCE_x10,
        consecutive_before |-> consecutive_before,
        consecutive_penalty |-> L * consecutive_before * WEIGHT_CONSECUTIVE_PENALTY_x10,
        fairness_recent |-> fairness_recent,
        fairness_penalty |-> L * fairness_recent * WEIGHT_FAIRNESS_PENALTY_x10,
        total |-> score_guard_for_shift(sh, g, s)]

\* mutant: of the candidates of maximal score the last one enumerated
BestCandidate_LastOfTies(sh, s) ==
    LET c == find_candidates(sh, s)
        top == CHOOSE i \in 1..Len(c) :
                 /\ \A j \in 1..Len(c) :
                      score_guard_for_shift(sh, c[j], s) <= score_guard_for_shift(sh, c[i], s)
                 /\ \A j \in (i + 1)..Len(c) :
                      score_guard_for_shift(sh, c[j], s) < score_guard_for_shift(sh, c[i], s)
    IN c[top]

\* scored.sort(key=score, reverse=True)[0]: the first candidate, in
\* enumeration order, among those of maximal score
BestCandidate(sh, s) ==
    LET c == find_candidates(sh, s)
        top == CHOOSE i \in 1..Len(c) :
                 /\ \A j \in 1..Len(c) :
                      score_guard_for_shift(sh, c[j], s) <= score_guard_for_shift(sh, c[i], s)
                 /\ \A j \in 1..(i - 1) :
                      score_guard_for_shift(sh, c[j], s) < score_guard_for_shift(sh, c[i], s)
    IN c[top]

\* min_skill_frac_accept = 0.0
min_skill_frac_accept_num == 0

\* Shift.objects.filter(date=run_date).order_by("start_time"): every order
\* of the day's rows that is ascending in start_time
DayShifts(sh, d) == {s \in DOMAIN sh : sh[s].date = d}

DayOrders_Descending(sh, d) ==
    LET S == DayShifts(sh, d)
        n == Cardinality(S)
    IN {q \in [1..n -> S] :
          /\ \A i, j \in 1..n : i # j => q[i] # q[j]
          /\ \A i, j \in 1..n : i < j => sh[q[i]].start_time >= sh[q[j]].start_time}

DayOrders(sh, d) ==
    LET S == DayShifts(sh, d)
        n == Cardinality(S)
    IN {q \in [1..n -> S] :
          /\ \A i, j \in 1..n : i # j => q[i] # q[j]
          /\ \A i, j \in 1..n : i < j => sh[q[i]].start_time <= sh[q[j]].start_time}

IdleLoc == [kind |-> "none"]
NoResp == [kind |-> "none"]

\* if shift.assigned_guard_id: the row is reported and skipped
HasAssignedGuard_Never(assigned_guard_id) == FALSE
HasAssignedGuard(assigned_guard_id) == assigned_guard_id # None

\* if best_skill < min_skill_frac_accept, on the fraction <<matches, required>>
BelowThreshold_Half(frac) == 2 * frac[1] < frac[2]
BelowThreshold(frac) == frac[1] < min_skill_frac_accept_num * frac[2]

\* run_allocation_for_day: the queryset is evaluated when the loop starts
StartAllocDay(p, d) ==
    /\ pc[p] = "idle"
    /\ \E q \in DayOrders(shifts, d) :
         loc' = [loc EXCEPT ![p] =
                   [kind |-> "alloc_day", run_date |-> d, queue |-> q,
                    rows |-> [s \in DayShifts(shifts, d) |-> shifts[s].assigned_guard],
                    idx |-> 1, best |-> None,
                    results |-> [s \in DayShifts(shifts, d) |-> "pending"],
                    assigned_count |-> 0, unassigned |-> {}]]
    /\ pc' = [pc EXCEPT ![p] = "alloc_loop"]
    /\ resp' = [resp EXCEPT ![p] = NoResp]
    /\ UNCHANGED <<shifts, attendance, sent, clock, staff_can_force>>

\* one pass of the loop body up to the save, or the return after the loop
AllocLoop(p) ==
    /\ pc[p] = "alloc_loop"
    /\ LET l == loc[p] IN
       IF l.idx > Len(l.queue)
       THEN /\ resp' = [resp EXCEPT ![p] =
                 [kind |-> "alloc_day", run_date |-> l.run_date, shifts |-> l.results,
                  total_shifts |-> Len(l.queue), assigned |-> l.assigned_count,
                  unassigned |-> Cardinality(l.unassigned)]]
            /\ pc' = [pc EXCEPT ![p] = "idle"]
            /\ loc' = [loc EXCEPT ![p] = IdleLoc]
       ELSE LET s == l.queue[l.idx] IN
            /\ UNCHANGED resp
            /\ IF HasAssignedGuard(l.rows[s])
               THEN /\ loc' = [loc EXCEPT ![p].results[s] = "already_assigned",
                                          ![p].idx = l.idx + 1]
                    /\ UNCHANGED pc
               ELSE IF find_candidates(shifts, s) = <<>>
               THEN /\ loc' = [loc EXCEPT ![p].results[s] = "no_candidates",
                                          ![p].unassigned = l.unassigned \cup {s},
                                          ![p].idx = l.idx + 1]
                    /\ UNCHANGED pc
               ELSE LET g == BestCandidate(shifts, s) IN
                    IF BelowThreshold(skill_frac(shifts, g, s))
                    THEN /\ loc' = [loc EXCEPT ![p].results[s] = "rejected_by_skill_threshold",
                                               ![p].unassigned = l.unassigned \cup {s},
                                               ![p].idx = l.idx + 1]
                         /\ UNCHANGED pc
                    ELSE /\ loc' = [loc EXCEPT ![p].best = g]
                         /\ pc' = [pc EXCEPT ![p] = "alloc_save"]
    /\ UNCHANGED <<shifts, attendance, sent, clock, staff_can_force>>

AllocSave_Unsaved(p) ==
    /\ pc[p] = "alloc_save"
    /\ LET l == loc[p]
           s == l.queue[l.idx]
       IN loc' = [loc EXCEPT ![p].results[s] = "assigned",
                             ![p].assigned_count = l.assigned_count + 1,
                             ![p].best = None,
                             ![p].idx = l.idx + 1]
    /\ pc' = [pc EXCEPT ![p] = "alloc_loop"]
    /\ UNCHANGED <<shifts, attendance, sent, clock, staff_can_force, resp>>

\* shift.assigned_guard = best_guard; shift.save(update_fields=["assigned_guard"])
AllocSave(p) ==
    /\ pc[p] = "alloc_save"
    /\ LET l == loc[p]
           s == l.queue[l.idx]
       IN /\ shifts' = [shifts EXCEPT ![s].assigned_guard = l.best]
          /\ loc' = [loc EXCEPT ![p].results[s] = "assigned",
                                ![p].assigned_count = l.assigned_count + 1,
                                ![p].best = None,
                                ![p].idx = l.idx + 1]
    /\ pc' = [pc EXCEPT ![p] = "alloc_loop"]
    /\ UNCHANGED <<attendance, sent, clock, staff_can_force, resp>>

\* shift.save raises (the database refuses the write): nothing in
\* run_allocation_for_day catches it, so the exception leaves the function
\* with the rows saved so far committed (autocommit) and no summary returned
AllocSaveFails(p) ==
    /\ pc[p] = "alloc_save"
    /\ LET l == loc[p] IN
         resp' = [resp EXCEPT ![p] =
                    [kind |-> "exception", run_date |-> l.run_date, at |-> l.queue[l.idx]]]
    /\ pc' = [pc EXCEPT ![p] = "idle"]
    /\ loc' = [loc EXCEPT ![p] = IdleLoc]
    /\ UNCHANGED <<shifts, attendance, sent, clock, staff_can_force>>

\* run_allocation_for_range in request p; each call of
\* run_allocation_for_day runs in the frame q and returns through resp[q]

\* mutant: the end date is left out
RangeContinues_Exclusive(cur, end_date) == cur < end_date

\* while cur <= end_date
RangeContinues(cur, end_date) == cur <= end_date

RangeStart(p, start_date, end_date) ==
    /\ pc[p] = "idle"
    /\ loc' = [loc EXCEPT ![p] =
                 [kind |-> "alloc_range", start_date |-> start_date, end_date |-> end_date,
                  cur |-> start_date, out |-> <<>>]]
    /\ pc' = [pc EXCEPT ![p] = "range_test"]
    /\ resp' = [resp EXCEPT ![p] = NoResp]
    /\ UNCHANGED <<shifts, attendance, sent, clock, staff_can_force>>

\* the loop test, and return out when it fails
RangeTest(p) ==
    /\ pc[p] = "range_test"
    /\ IF RangeContinues(loc[p].cur, loc[p].end_date)
       THEN /\ pc' = [pc EXCEPT ![p] = "range_call"]
            /\ UNCHANGED <<loc, resp>>
       ELSE /\ resp' = [resp EXCEPT ![p] =
                   [kind |-> "alloc_range", start_date |-> loc[p].start_date,
                    end_date |-> loc[p].end_date, out |-> loc[p].out]]
            /\ pc' = [pc EXCEPT ![p] = "idle"]
            /\ loc' = [loc EXCEPT ![p] = IdleLoc]
    /\ UNCHANGED <<shifts, attendance, sent, clock, staff_can_force>>

\* run_allocation_for_day(cur) is entered
RangeCall(p, q) ==
    /\ pc[p] = "range_call"
    /\ resp[q] = NoResp
    /\ StartAllocDay(q, loc[p].cur)

\* out[str(cur)] = <the day's result>; cur = cur + timedelta(days=1); an
\* exception of the day's run is not caught and leaves the function
RangeReturn(p, q) ==
    /\ pc[p] = "range_call"
    /\ pc[q] = "idle"
    /\ resp[q] # NoResp
    /\ IF resp[q].kind = "alloc_day"
       THEN /\ loc' = [loc EXCEPT ![p].out = (loc[p].cur :> resp[q]) @@ loc[p].out,
                                  ![p].cur = loc[p].cur + 1]
            /\ pc' = [pc EXCEPT ![p] = "range_test"]
            /\ resp' = [resp EXCEPT ![q] = NoResp]
       ELSE /\ resp' = [resp EXCEPT ![p] = resp[q], ![q] = NoResp]
            /\ pc' = [pc EXCEPT ![p] = "idle"]
            /\ loc' = [loc EXCEPT ![p] = IdleLoc]
    /\ UNCHANGED <<shifts, attendance, sent, clock, staff_can_force>>

----------------------------------------------------------------------------
(* serializers.py: AttendanceCreateSerializer *)

\* datetime.combine(date, time), made aware in the current zone
Combine(d, t) == d * DAY + t

LocalDate(now) == now \div DAY

Abs(x) == IF x < 0 THEN -x ELSE x

\* mutant: the end of an overnight shift is not moved to the next day
ResolverEnd_NoWrap(row) == Combine(row.date, row.end_time)

\* the window _resolve_shift_from_premise computes for a row
ResolverEnd(row) ==
    LET start_dt == Combine(row.date, row.start_time)
        end_dt == Combine(row.date, row.end_time)
    IN IF end_dt <= start_dt THEN end_dt + DAY ELSE end_dt

ResolverAllowedStart(row, early) == Combine(row.date, row.start_time) - early
ResolverAllowedEnd(row, late) == ResolverEnd(row) + late

\* candidate_shifts.filter(date=check_date), ordered by start_time (rows of
\* one premise and date with equal start_time: by pk)
RECURSIVE SortByStart(_, _)
SortByStart(sh, S) ==
    IF S = {} THEN <<>>
    ELSE LET m == CHOOSE x \in S : \A y \in S :
                    \/ sh[x].start_time < sh[y].start_time
                    \/ sh[x].start_time = sh[y].start_time /\ x <= y
         IN <<m>> \o SortByStart(sh, S \ {m})

PremiseDayShifts(sh, premise, d) ==
    SortByStart(sh, {s \in DOMAIN sh : sh[s].premise = premise /\ sh[s].date = d})

\* the rows the two nested loops visit, in order, had no break been taken
RECURSIVE ScanOrder(_, _, _, _)
ScanOrder(sh, premise, local_date, offs) ==
    IF offs = <<>> THEN <<>>
    ELSE PremiseDayShifts(sh, premise, local_date + Head(offs))
           \o ScanOrder(sh, premise, local_date, Tail(offs))

RECURSIVE OffsetRange(_, _)
OffsetRange(lo, hi) == IF lo > hi THEN <<>> ELSE <<lo>> \o OffsetRange(lo + 1, hi)

InWindow(row, now, early, late) ==
    /\ ResolverAllowedStart(row, early) <= now
    /\ now <= ResolverAllowedEnd(row, late)

\* mutant: the fallback takes the first row dated today when there is one
ClosestStart_TodayFirst(sh, visited, now) ==
    LET diff(i) == Abs(Combine(sh[visited[i]].date, sh[visited[i]].start_time) - now)
        today == {i \in 1..Len(visited) : sh[visited[i]].date = LocalDate(now)}
        pool == IF today # {} THEN today ELSE 1..Len(visited)
        best == CHOOSE i \in pool :
                  /\ \A j \in pool : diff(i) <= diff(j)
                  /\ \A j \in pool : j < i => diff(j) > diff(i)
    IN visited[best]

\* fallback: first row of minimal |start - now| among the windows collected
ClosestStart(sh, visited, now) ==
    LET diff(i) == Abs(Combine(sh[visited[i]].date, sh[visited[i]].start_time) - now)
        best == CHOOSE i \in 1..Len(visited) :
                  /\ \A j \in 1..Len(visited) : diff(i) <= diff(j)
                  /\ \A j \in 1..(i - 1) : diff(j) > diff(i)
    IN visited[best]

_resolve_shift_from_premise(sh, premise, now, early, late, date_tolerance) ==
    LET order == ScanOrder(sh, premise, LocalDate(now),
                           OffsetRange(-date_tolerance, date_tolerance))
        hits == {i \in 1..Len(order) : InWindow(sh[order[i]], now, early, late)}
    IN IF hits # {}
       THEN order[CHOOSE i \in hits : \A j \in hits : i <= j]
       ELSE IF order = <<>> THEN None
       ELSE ClosestStart(sh, order, now)

\* qr.get("uuid") or ..., qr.get("id") or ...: the premise the payload names
\* <<"ok", premise>>, or <<"error", None>>
PremiseByUuid(u) == {p \in Premises : premise_uuid[p] = u}

PayloadPremise(qr) ==
    IF qr.uuid # None
    THEN IF PremiseByUuid(qr.uuid) # {}
         THEN <<"ok", CHOOSE p \in PremiseByUuid(qr.uuid) : TRUE>>
         ELSE <<"error", None>>
    ELSE IF qr.id # None
    THEN IF qr.id \in Premises THEN <<"ok", qr.id>> ELSE <<"error", None>>
    ELSE <<"error", None>>

\* validate(): <<"ok", resolved shift, timestamp used>> or <<"error", ...>>;
\* a payload is absent, an unparseable string ("bad") or a dict
validate(sh, req, now) ==
    LET client_ts == IF req.client_timestamp # None THEN req.client_timestamp ELSE now
    IN IF req.qr.form = "bad" THEN <<"error", None, client_ts>>
       ELSE IF req.shift_id # None /\ req.shift_id \in DOMAIN sh
       THEN <<"ok", req.shift_id, client_ts>>
       ELSE IF req.qr.form = "absent" THEN <<"error", None, client_ts>>
       ELSE LET pp == PayloadPremise(req.qr) IN
            IF pp[1] = "error" THEN <<"error", None, client_ts>>
            ELSE LET chosen == _resolve_shift_from_premise(sh, pp[2], client_ts,
                                   ATTENDANCE_ALLOWED_EARLY_MINUTES,
                                   ATTENDANCE_ALLOWED_LATE_MINUTES,
                                   ATTENDANCE_DATE_TOLERANCE_DAYS)
                 IN IF chosen = None THEN <<"error", None, client_ts>>
                    ELSE <<"ok", chosen, client_ts>>

\* AttendanceRecord.objects.create(...) in create()
NewRecord(u, s, check_time, qr) ==
    [guard |-> u, shift |-> s, check_in_time |-> check_time, qr_payload |-> qr,
     status |-> "ON_TIME"]

----------------------------------------------------------------------------
(* views.py: AttendanceView.post *)

\* the payload gate of lines 608-624
PayloadGate(sh, s, qr) ==
    IF qr.uuid # None
    THEN IF premise_uuid[sh[s].premise] # qr.uuid THEN "PayloadMismatch" ELSE "ok"
    ELSE IF qr.id # None
    THEN IF qr.id # sh[s].premise THEN "PayloadMismatch" ELSE "ok"
    ELSE "ValidationError"

ViewAllowedStart(row) == Combine(row.date, row.start_time) - ATTENDANCE_ALLOWED_EARLY_MINUTES
ViewEndDt(row) == Combine(row.date, row.end_time)
ViewAllowedEnd(row) == ViewEndDt(row) + ATTENDANCE_ALLOWED_LATE_MINUTES

\* mutant: the upper bound compared with < instead of <=
ViewInWindow_Strict(row, now) == ViewAllowedStart(row) <= now /\ now < ViewAllowedEnd(row)

ViewInWindow(row, now) == ViewAllowedStart(row) <= now /\ now <= ViewAllowedEnd(row)

StaffForced(u, force_flag) == staff_can_force /\ is_staff[u] /\ force_flag

SkillSetOf(s) == SeqRange(_split_tags(s))

AutoAssignOk_Overwrites(sh, u, s) ==
    /\ is_guard[u]
    /\ SkillSetOf(sh[s].required_skills) \subseteq SkillSetOf(profile_skills[u])

\* ATTENDANCE_AUTO_ASSIGN_MIN_EXP is not set: min_exp = 0 and exp_ok = True
AutoAssignOk(sh, u, s) ==
    /\ sh[s].assigned_guard = None
    /\ is_guard[u]
    /\ SkillSetOf(sh[s].required_skills) \subseteq SkillSetOf(profile_skills[u])

\* a response, with the request fields it answers and the number of
\* group_send calls to the caller's topic the handler issued on the way
Response(endpoint, code, u, s, now, force, rec, auto, publishes) ==
    [kind |-> endpoint, code |-> code, user |-> u, shift |-> s, now |-> now,
     force |-> force, record |-> rec, auto_assigned |-> auto, publishes |-> publishes]

Reject_AfterAssign(p, endpoint, code, u, s, now, force) ==
    /\ resp' = [resp EXCEPT ![p] = Response(endpoint, code, u, s, now, force, None, FALSE, 0)]
    /\ pc' = [pc EXCEPT ![p] = "idle"]
    /\ loc' = [loc EXCEPT ![p] = IdleLoc]
    /\ shifts' = IF s # None /\ is_guard[u] /\ shifts[s].assigned_guard = None
                 THEN [shifts EXCEPT ![s].assigned_guard = u]
                 ELSE shifts
    /\ UNCHANGED <<attendance, sent, clock, staff_can_force>>

\* return Response(..., status=4xx) (or the exception raised by is_valid):
\* every gate returns before the first write of the handler
Reject(p, endpoint, code, u, s, now, force) ==
    /\ resp' = [resp EXCEPT ![p] = Response(endpoint, code, u, s, now, force, None, FALSE, 0)]
    /\ pc' = [pc EXCEPT ![p] = "idle"]
    /\ loc' = [loc EXCEPT ![p] = IdleLoc]
    /\ UNCHANGED <<shifts, attendance, sent, clock, staff_can_force>>

\* lines 586-681 up to the first write: every gate, then the decision to
\* auto-assign
AttendancePost(p, u, req) ==
    /\ pc[p] = "idle"
    /\ IF req.qr.form # "dict"
       THEN Reject(p, "attendance", "ValidationError", u, None, clock, req.force)
       ELSE LET v == validate(shifts, req, clock) IN
       IF v[1] = "error"
       THEN Reject(p, "attendance", "ShiftNotResolved", u, None, clock, req.force)
       ELSE IF req.shift_id = None \/ req.shift_id \notin DOMAIN shifts
       THEN Reject(p, "attendance", "ShiftNotResolved", u, None, clock, req.force)
       ELSE LET s == req.shift_id
                gate == PayloadGate(shifts, s, req.qr)
            IN
            IF gate # "ok" THEN Reject(p, "attendance", gate, u, s, clock, req.force)
            ELSE IF ~ViewInWindow(shifts[s], clock) /\ ~StaffForced(u, req.force)
            THEN Reject(p, "attendance", "OutsideWindow", u, s, clock, req.force)
            ELSE IF ~is_guard[u] /\ ~StaffForced(u, req.force)
            THEN Reject(p, "attendance", "NotGuard", u, s, clock, req.force)
            ELSE /\ loc' = [loc EXCEPT ![p] =
                      [kind |-> "attendance", user |-> u, shift |-> s,
                       check_time |-> v[3], qr |-> req.qr, now |-> clock,
                       force |-> req.force, end_dt |-> ViewEndDt(shifts[s]),
                       auto_assigned |-> FALSE, record |-> None]]
                 /\ pc' = [pc EXCEPT ![p] =
                      IF AutoAssignOk(shifts, u, s) THEN "att_assign" ELSE "att_create"]
                 /\ resp' = [resp EXCEPT ![p] = NoResp]
                 /\ UNCHANGED <<shifts, attendance, sent, clock, staff_can_force>>

\* shift.assigned_guard = user; shift.save(update_fields=["assigned_guard"])
AttAssign(p) ==
    /\ pc[p] = "att_assign"
    /\ shifts' = [shifts EXCEPT ![loc[p].shift].assigned_guard = loc[p].user]
    /\ loc' = [loc EXCEPT ![p].auto_assigned = TRUE]
    /\ pc' = [pc EXCEPT ![p] = "att_create"]
    /\ UNCHANGED <<attendance, sent, clock, staff_can_force, resp>>

\* attendance = serializer.save(guard=user)
AttCreate(p) ==
    /\ pc[p] = "att_create"
    /\ attendance' = Append(attendance,
                            NewRecord(loc[p].user, loc[p].shift, loc[p].check_time, loc[p].qr))
    /\ loc' = [loc EXCEPT ![p].record = Len(attendance) + 1]
    /\ pc' = [pc EXCEPT ![p] = "att_finalize"]
    /\ UNCHANGED <<shifts, sent, clock, staff_can_force, resp>>

\* serializer.save raises (the database refuses the insert): nothing in
\* post catches it and no transaction is open, so the request ends as a
\* server error with the auto-assignment already committed
AttCreateFails(p) ==
    /\ pc[p] = "att_create"
    /\ resp' = [resp EXCEPT ![p] =
                  Response("attendance", "ServerError", loc[p].user, loc[p].shift, loc[p].now,
                           loc[p].force, None, loc[p].auto_assigned, 0)]
    /\ pc' = [pc EXCEPT ![p] = "idle"]
    /\ loc' = [loc EXCEPT ![p] = IdleLoc]
    /\ UNCHANGED <<shifts, attendance, sent, clock, staff_can_force>>

\* the attendance.save() that stores the status raises: the row inserted by
\* serializer.save stays, with the status it was created with
AttFinalizeFails(p) ==
    /\ pc[p] = "att_finalize"
    /\ resp' = [resp EXCEPT ![p] =
                  Response("attendance", "ServerError", loc[p].user, loc[p].shift, loc[p].now,
                           loc[p].force, loc[p].record, loc[p].auto_assigned, 0)]
    /\ pc' = [pc EXCEPT ![p] = "idle"]
    /\ loc' = [loc EXCEPT ![p] = IdleLoc]
    /\ UNCHANGED <<shifts, attendance, sent, clock, staff_can_force>>

\* now_after_save = timezone.now(); status; attendance.save(); 201
AttFinalize(p) ==
    /\ pc[p] = "att_finalize"
    /\ attendance' = [attendance EXCEPT ![loc[p].record].status =
                         IF clock <= loc[p].end_dt THEN "ON_TIME" ELSE "LATE"]
    /\ resp' = [resp EXCEPT ![p] =
                  Response("attendance", "Created", loc[p].user, loc[p].shift, loc[p].now,
                           loc[p].force, loc[p].record, loc[p].auto_assigned, 0)]
    /\ pc' = [pc EXCEPT ![p] = "idle"]
    /\ loc' = [loc EXCEPT ![p] = IdleLoc]
    /\ UNCHANGED <<shifts, sent, clock, staff_can_force>>

----------------------------------------------------------------------------
(* views.py: QRCheckInView.post *)

\* ser.is_valid()
QrCheckIn(p, u, req) ==
    /\ pc[p] = "idle"
    /\ LET v == validate(shifts, req, clock) IN
       IF v[1] = "error"
       THEN Reject(p, "checkin",
                   IF req.qr.form = "bad" THEN "ValidationError" ELSE "ShiftNotResolved",
                   u, None, v[3], req.force)
       ELSE /\ loc' = [loc EXCEPT ![p] =
                   [kind |-> "checkin", user |-> u, shift |-> v[2], check_time |-> v[3],
                    qr |-> req.qr, now |-> v[3], force |-> req.force]]
            /\ pc' = [pc EXCEPT ![p] = "qr_create"]
            /\ resp' = [resp EXCEPT ![p] = NoResp]
            /\ UNCHANGED <<shifts, attendance, sent, clock, staff_can_force>>

\* mutant: no except around the group_send calls, a raise becomes a 500
AfterNotifications_Unguarded(delivered) ==
    IF delivered < 2 THEN "ServerError" ELSE "Created"

\* except Exception: pass, then return Response(out, status=201) whatever
\* number of the two messages went out
AfterNotifications(delivered) == "Created"

\* ser.create(...), then the two group_send calls inside one try: the
\* second is skipped when the first raises
QrCreate(p) ==
    /\ pc[p] = "qr_create"
    /\ attendance' = Append(attendance,
                            NewRecord(loc[p].user, loc[p].shift, loc[p].check_time, loc[p].qr))
    /\ \E delivered \in {0, 1, 2} :
         /\ sent' = sent
              \cup (IF delivered >= 1
                    THEN {[topic |-> <<"user", loc[p].user>>, kind |-> "attendance.created",
                           ref |-> Len(attendance) + 1]}
                    ELSE {})
              \cup (IF delivered >= 2
                    THEN {[topic |-> <<"dispatchers", None>>, kind |-> "attendance.created",
                           ref |-> Len(attendance) + 1]}
                    ELSE {})
         /\ resp' = [resp EXCEPT ![p] =
                       Response("checkin", AfterNotifications(delivered), loc[p].user,
                                loc[p].shift, loc[p].now, loc[p].force,
                                Len(attendance) + 1, FALSE, 1)]
    /\ pc' = [pc EXCEPT ![p] = "idle"]
    /\ loc' = [loc EXCEPT ![p] = IdleLoc]
    /\ UNCHANGED <<shifts, clock, staff_can_force>>

----------------------------------------------------------------------------
(* views.py: AllocateView.post *)

\* the rows as the statements of a transaction see them: committed rows
\* overlaid with the transaction's own writes
TxnShifts(sh, writes) ==
    [s \in DOMAIN sh |->
        IF \E w \in writes : w.shift = s
        THEN LET w == CHOOSE x \in writes : x.shift = s
             IN [sh[s] EXCEPT !.assigned_guard = w.guard, !.assigned_at = w.at]
        ELSE sh[s]]

\* score_guard_for_skills: matched tags (as sets) * 10 + experience_years
score_guard_for_skills(g, required_skills) ==
    Cardinality(SkillSetOf(required_skills) \cap SkillSetOf(profile_skills[g])) * 10
      + experience_years[g]

\* guard_has_conflict: a shift of the guard on the date overlaps in time
guard_has_conflict(sh, g, s) ==
    \E x \in DOMAIN sh :
        /\ x # s /\ sh[x].assigned_guard = g /\ sh[x].date = sh[s].date
        /\ ~(sh[x].end_time <= sh[s].start_time \/ sh[x].start_time >= sh[s].end_time)

AllocateCandidates_NoRequestSet(sh, s, assigned_guard_ids) ==
    {g \in Users : /\ has_profile[g]
                   /\ ~is_staff[g]
                   /\ ~guard_has_conflict(sh, g, s)}

\* the profiles that pass the three continue tests of the inner loop
AllocateCandidates(sh, s, assigned_guard_ids) ==
    {g \in Users : /\ has_profile[g]
                   /\ g \notin assigned_guard_ids
                   /\ ~is_staff[g]
                   /\ ~guard_has_conflict(sh, g, s)}

\* candidates.sort(key=score, reverse=True): descending, profiles of equal
\* score in the order of guard_profiles (primary key)
RECURSIVE SortByScoreDesc(_, _)
SortByScoreDesc(S, required_skills) ==
    IF S = {} THEN <<>>
    ELSE LET m == CHOOSE x \in S : \A y \in S :
                    \/ score_guard_for_skills(x, required_skills)
                         > score_guard_for_skills(y, required_skills)
                    \/ /\ score_guard_for_skills(x, required_skills)
                            = score_guard_for_skills(y, required_skills)
                       /\ x <= y
         IN <<m>> \o SortByScoreDesc(S \ {m}, required_skills)

\* Shift.objects.filter(premise, date, assigned_guard__isnull=True)
UnassignedAt(sh, premise, d) ==
    {s \in DOMAIN sh : sh[s].premise = premise /\ sh[s].date = d /\ sh[s].assigned_guard = None}

\* ... .order_by("start_time"): every order ascending in start_time
UnassignedOrders(sh, premise, d) ==
    LET S == UnassignedAt(sh, premise, d)
        n == Cardinality(S)
    IN {q \in [1..n -> S] :
          /\ \A i, j \in 1..n : i # j => q[i] # q[j]
          /\ \A i, j \in 1..n : i < j => sh[q[i]].start_time <= sh[q[j]].start_time}

LockedByOther_Never(p, s) == FALSE

\* rows locked by a transaction of another request
LockedByOther(p, s) ==
    \E q \in Procs \ {p} : loc[q].kind = "allocate" /\ s \in loc[q].locks

AllocateResponse(code, assignments) ==
    [kind |-> "allocate", code |-> code, assignments |-> assignments,
     count |-> Len(assignments)]

\* lines 378-413: parameter gates, get_object_or_404, shifts_qs.exists()
AllocatePost(p, premise_id, limit_per_shift) ==
    /\ pc[p] = "idle"
    /\ UNCHANGED <<shifts, attendance, sent, clock, staff_can_force>>
    /\ IF premise_id \notin Premises
       THEN /\ resp' = [resp EXCEPT ![p] = AllocateResponse("NotFound", <<>>)]
            /\ UNCHANGED <<pc, loc>>
       ELSE IF UnassignedAt(shifts, premise_id, LocalDate(clock)) = {}
       THEN /\ resp' = [resp EXCEPT ![p] = AllocateResponse("OK", <<>>)]
            /\ UNCHANGED <<pc, loc>>
       ELSE /\ loc' = [loc EXCEPT ![p] =
                   [kind |-> "allocate", premise |-> premise_id, date |-> LocalDate(clock),
                    limit_per_shift |-> IF limit_per_shift < 1 THEN 1 ELSE limit_per_shift,
                    queue |-> <<>>, idx |-> 1, candidates |-> <<>>, cidx |-> 1,
                    assigned_for_this_shift |-> 0, assigned_guard_ids |-> {},
                    assignments |-> <<>>, writes |-> {}, locks |-> {}]]
            /\ pc' = [pc EXCEPT ![p] = "av_load"]
            /\ resp' = [resp EXCEPT ![p] = NoResp]

\* with transaction.atomic(): for shift in shifts_qs: the queryset is
\* evaluated here
AvLoad(p) ==
    /\ pc[p] = "av_load"
    /\ \E q \in UnassignedOrders(shifts, loc[p].premise, loc[p].date) :
         loc' = [loc EXCEPT ![p].queue = q]
    /\ pc' = [pc EXCEPT ![p] = "av_scan"]
    /\ UNCHANGED <<shifts, attendance, sent, clock, staff_can_force, resp>>

\* the candidate list of the next shift, or the end of the loop
AvScan(p) ==
    /\ pc[p] = "av_scan"
    /\ LET l == loc[p] IN
       IF l.idx > Len(l.queue)
       THEN /\ pc' = [pc EXCEPT ![p] = "av_commit"]
            /\ UNCHANGED loc
       ELSE LET s == l.queue[l.idx]
                row == shifts[s]
                c == SortByScoreDesc(
                        AllocateCandidates(TxnShifts(shifts, l.writes), s, l.assigned_guard_ids),
                        row.required_skills)
            IN IF c = <<>>
               THEN /\ loc' = [loc EXCEPT ![p].idx = l.idx + 1]
                    /\ UNCHANGED pc
               ELSE /\ loc' = [loc EXCEPT ![p].candidates = c, ![p].cidx = 1,
                                          ![p].assigned_for_this_shift = 0]
                    /\ pc' = [pc EXCEPT ![p] = "av_lock"]
    /\ UNCHANGED <<shifts, attendance, sent, clock, staff_can_force, resp>>

\* the head of the candidate loop: the limit test, then
\* Shift.objects.select_for_update().get(pk=shift.pk), which waits for a row
\* lock held by another transaction, and the test of the fresh row
AvLock(p) ==
    /\ pc[p] = "av_lock"
    /\ LET l == loc[p]
           s == l.queue[l.idx]
       IN IF l.cidx > Len(l.candidates) \/ l.assigned_for_this_shift >= l.limit_per_shift
          THEN /\ loc' = [loc EXCEPT ![p].idx = l.idx + 1]
               /\ pc' = [pc EXCEPT ![p] = "av_scan"]
          ELSE /\ ~LockedByOther(p, s)
               /\ IF TxnShifts(shifts, l.writes)[s].assigned_guard # None
                  THEN /\ loc' = [loc EXCEPT ![p].idx = l.idx + 1,
                                             ![p].locks = l.locks \cup {s}]
                       /\ pc' = [pc EXCEPT ![p] = "av_scan"]
                  ELSE /\ loc' = [loc EXCEPT ![p].locks = l.locks \cup {s}]
                       /\ pc' = [pc EXCEPT ![p] = "av_save"]
    /\ UNCHANGED <<shifts, attendance, sent, clock, staff_can_force, resp>>

\* fresh.save(update_fields=["assigned_guard", "assigned_at"]) inside the
\* transaction, then notify_user, whose failure is swallowed
AvSave(p) ==
    /\ pc[p] = "av_save"
    /\ LET l == loc[p]
           s == l.queue[l.idx]
           g == l.candidates[l.cidx]
       IN /\ loc' = [loc EXCEPT
                 ![p].writes = l.writes \cup {[shift |-> s, guard |-> g, at |-> clock]},
                 ![p].assigned_guard_ids = l.assigned_guard_ids \cup {g},
                 ![p].assignments = Append(l.assignments,
                     [shift |-> s, guard |-> g,
                      score |-> score_guard_for_skills(g, shifts[s].required_skills)]),
                 ![p].assigned_for_this_shift = l.assigned_for_this_shift + 1,
                 ![p].cidx = l.cidx + 1]
          /\ \E delivered \in BOOLEAN :
               sent' = IF delivered
                       THEN sent \cup {[topic |-> <<"user", g>>, kind |-> "assignment.created",
                                        ref |-> s]}
                       ELSE sent
    /\ pc' = [pc EXCEPT ![p] = "av_lock"]
    /\ UNCHANGED <<shifts, attendance, clock, staff_can_force, resp>>

\* the atomic block ends: the writes are committed and the locks released;
\* return Response({"assignments": ..., "count": ...})
AvCommit(p) ==
    /\ pc[p] = "av_commit"
    /\ shifts' = TxnShifts(shifts, loc[p].writes)
    /\ resp' = [resp EXCEPT ![p] = AllocateResponse("OK", loc[p].assignments)]
    /\ pc' = [pc EXCEPT ![p] = "idle"]
    /\ loc' = [loc EXCEPT ![p] = IdleLoc]
    /\ UNCHANGED <<attendance, sent, clock, staff_can_force>>

\* a database statement inside the atomic block raises (connection lost,
\* statement refused): the exception leaves the with block, the transaction
\* is rolled back with every write of the request and its locks, and the
\* request ends as a server error; what notify_user has published stays
AvFails(p) ==
    /\ pc[p] \in {"av_scan", "av_lock", "av_save"}
    /\ resp' = [resp EXCEPT ![p] = AllocateResponse("ServerError", <<>>)]
    /\ pc' = [pc EXCEPT ![p] = "idle"]
    /\ loc' = [loc EXCEPT ![p] = IdleLoc]
    /\ UNCHANGED <<shifts, attendance, sent, clock, staff_can_force>>

----------------------------------------------------------------------------
(* The allocation world: Horizon history days, then the run date *)

Horizon == 7
RunDate == Horizon + 1
HistDays == 1..Horizon

T(hh, mm) == hh * 60 + mm

\* history rows: one per guard slot and history day; run-date rows 1..3
HistId(d, k) == 10 * d + k
HistIds == {HistId(d, k) : d \in HistDays, k \in {1, 2}}
RunIds == {1, 2, 3}

ShiftRow(p, d, st, en, req, g) ==
    [premise |-> p, date |-> d, start_time |-> st, end_time |-> en,
     required_skills |-> req, assigned_guard |-> g, assigned_at |-> None]

RunRow(s, g) ==
    CASE s = 1 -> ShiftRow(1, RunDate, T(8, 0), T(16, 0), <<"armed", "CCTV">>, g)
      [] s = 2 -> ShiftRow(1, RunDate, T(22, 0), T(6, 0), <<>>, g)
      [] s = 3 -> ShiftRow(2, RunDate, T(8, 0), T(16, 0), <<" armed", "armed", "dog">>, g)

\* the days guard slot k worked: the last n days before the run date and,
\* when isl, one more day beyond a one-day gap
HistoryDays(n, isl) ==
    {d \in HistDays : d >= RunDate - n}
      \cup (IF isl THEN {d \in HistDays : d = RunDate - n - 2} ELSE {})

AllocWorld(h1, h2, a) ==
    [s \in HistIds \cup RunIds |->
        IF s \in RunIds THEN RunRow(s, a[s])
        ELSE LET d == s \div 10
                 k == s % 10
             IN ShiftRow(k, d, T(8, 0), T(16, 0), <<>>,
                         IF d \in (IF k = 1 THEN h1 ELSE h2) THEN k ELSE None)]

InitCommon ==
    /\ attendance = <<>>
    /\ sent = {}
    /\ clock = RunDate * DAY
    /\ staff_can_force = FALSE
    /\ pc = [p \in Procs |-> "idle"]
    /\ loc = [p \in Procs |-> IdleLoc]
    /\ resp = [p \in Procs |-> NoResp]

InitAlloc ==
    /\ \E n1 \in 0..Horizon, isl \in BOOLEAN, n2 \in {0, MAX_CONSECUTIVE_DAYS - 1, MAX_CONSECUTIVE_DAYS},
          a \in [RunIds -> {None, 1, 2}] :
         shifts = AllocWorld(HistoryDays(n1, isl), HistoryDays(n2, FALSE), a)
    /\ InitCommon

\* one allocation run at a time
NextAlloc ==
    \/ StartAllocDay("A", RunDate)
    \/ AllocLoop("A")
    \/ AllocSave("A")

SpecAlloc == InitAlloc /\ [][NextAlloc]_vars

\* run_allocation_for_day(D) twice in succession: the second call (frame B)
\* starts when the first (frame A) has returned
NextTwice ==
    \/ resp["A"] = NoResp /\ StartAllocDay("A", RunDate)
    \/ AllocLoop("A")
    \/ AllocSave("A")
    \/ resp["A"].kind = "alloc_day" /\ resp["B"] = NoResp /\ StartAllocDay("B", RunDate)
    \/ AllocLoop("B")
    \/ AllocSave("B")

SpecTwice == InitAlloc /\ [][NextTwice]_vars

\* histories in which either guard worked any of the last three days, so
\* that two candidates can reach the same score; run-date shifts are
\* unassigned or were given by hand (ShiftViewSet.assign) to user 3
RecentDays == {d \in HistDays : d >= RunDate - 3}

InitTie ==
    /\ \E h1 \in SUBSET RecentDays, h2 \in SUBSET RecentDays, a \in [RunIds -> {None, 3}] :
         shifts = AllocWorld(h1, h2, a)
    /\ InitCommon

SpecTie == InitTie /\ [][NextAlloc]_vars

\* two runs for the same date, started once each and interleaved at the
\* granularity of their database accesses
StartAllocOnce(p) ==
    /\ resp[p] = NoResp
    /\ StartAllocDay(p, RunDate)

NextAllocConc ==
    \E p \in Procs :
        \/ StartAllocOnce(p)
        \/ AllocLoop(p)
        \/ AllocSave(p)

InitAllocConc ==
    /\ \E n1 \in {0, MAX_CONSECUTIVE_DAYS}, a \in [RunIds -> {None, 1, 2}] :
         shifts = AllocWorld(HistoryDays(n1, FALSE), {}, a)
    /\ InitCommon

SpecAllocConc == InitAllocConc /\ [][NextAllocConc]_vars

\* one run at a time whose saves may be refused by the database
NextAllocFail ==
    \/ StartAllocDay("A", RunDate)
    \/ AllocLoop("A")
    \/ AllocSave("A")
    \/ AllocSaveFails("A")

SpecAllocFail == InitAllocConc /\ [][NextAllocFail]_vars

\* the range world: the run-date rows and two rows dated the day after
RangeWorld(h1, a) ==
    (4 :> ShiftRow(1, RunDate + 1, T(8, 0), T(16, 0), <<>>, None))
      @@ (5 :> ShiftRow(2, RunDate + 1, T(8, 0), T(16, 0), <<"armed">>, None))
      @@ AllocWorld(h1, {}, a)

RangeInputs ==
    [start_date : {RunDate, RunDate + 1}, end_date : {RunDate, RunDate + 1, RunDate + 2}]

InitRange ==
    /\ \E n1 \in {0, MAX_CONSECUTIVE_DAYS - 1}, a \in [RunIds -> {None, 1, 2}] :
         shifts = RangeWorld(HistoryDays(n1, FALSE), a)
    /\ InitCommon

\* one range run, the saves of which may be refused by the database
NextRange ==
    \/ \E i \in RangeInputs :
         resp["B"] = NoResp /\ RangeStart("B", i.start_date, i.end_date)
    \/ RangeTest("B")
    \/ RangeCall("B", "A")
    \/ RangeReturn("B", "A")
    \/ AllocLoop("A")
    \/ AllocSave("A")
    \/ AllocSaveFails("A")

SpecRange == InitRange /\ [][NextRange]_vars

\* POST /api/allocate/ for a known or unknown premise, one request at a time;
\* a limit_per_shift of 0 stands for every value the handler replaces by 1
AllocateInputs == [premise_id : {1, 2, 9}, limit_per_shift : {0, 1, 2}]

AllocateSteps(p) ==
    \/ AvLoad(p)
    \/ AvScan(p)
    \/ AvLock(p)
    \/ AvSave(p)
    \/ AvCommit(p)

NextAllocate ==
    \/ \E i \in AllocateInputs : AllocatePost("A", i.premise_id, i.limit_per_shift)
    \/ AllocateSteps("A")

SpecAllocate == InitAllocConc /\ [][NextAllocate]_vars

\* one POST /api/allocate/ request whose database statements are free to fail
NextAllocateFail ==
    \/ \E i \in AllocateInputs :
         resp["A"] = NoResp /\ AllocatePost("A", i.premise_id, i.limit_per_shift)
    \/ AllocateSteps("A")
    \/ AvFails("A")

SpecAllocateFail == InitAllocConc /\ [][NextAllocateFail]_vars

\* two POST /api/allocate/ requests for premise 1, once each, interleaved at
\* the granularity of their database accesses
NextAllocateConc ==
    \E p \in Procs :
        \/ \E limit_per_shift \in {1, 2} :
             resp[p] = NoResp /\ AllocatePost(p, 1, limit_per_shift)
        \/ AllocateSteps(p)

SpecAllocateConc == InitAllocConc /\ [][NextAllocateConc]_vars

\* two POST /api/allocate/ requests for the same date, request A for
\* premise 1 and request B for premise 2, once each and interleaved
NextAllocateCross ==
    \/ resp["A"] = NoResp /\ AllocatePost("A", 1, 1)
    \/ resp["B"] = NoResp /\ AllocatePost("B", 2, 1)
    \/ \E p \in Procs : AllocateSteps(p)

SpecAllocateCross == InitAllocConc /\ [][NextAllocateCross]_vars

----------------------------------------------------------------------------
(* The check-in world: the run-date rows, a clock and the requests *)

MaxRecords == 2

At(d, hh, mm) == d * DAY + T(hh, mm)

ClockPoints ==
    {At(RunDate, 7, 44), At(RunDate, 7, 45), At(RunDate, 7, 50), At(RunDate, 16, 0),
     At(RunDate, 16, 30), At(RunDate, 17, 0), At(RunDate, 17, 5), At(RunDate, 21, 45),
     At(RunDate, 23, 50), At(RunDate + 1, 5, 30), At(RunDate + 1, 6, 0),
     At(RunDate + 1, 7, 0), At(RunDate + 1, 7, 1)}

\* server time moves on to one of the given instants between the insert and
\* the second timezone.now() of AttendanceView.post, the only later read
Tick(p, points) ==
    /\ pc[p] = "att_finalize"
    /\ \E t \in points : t > clock /\ clock' = t
    /\ UNCHANGED <<shifts, attendance, sent, staff_can_force, pc, loc, resp>>

InitRequests ==
    /\ attendance = <<>>
    /\ sent = {}
    /\ pc = [p \in Procs |-> "idle"]
    /\ loc = [p \in Procs |-> IdleLoc]
    /\ resp = [p \in Procs |-> NoResp]

QrDict(i, u) == [form |-> "dict", id |-> i, uuid |-> u]
QrNone(f) == [form |-> f, id |-> None, uuid |-> None]

\* one check-in request through either endpoint
CheckinOnce(p, users, reqs) ==
    \/ \E u \in users, req \in reqs : resp[p] = NoResp /\ AttendancePost(p, u, req)
    \/ \E u \in users, req \in reqs : resp[p] = NoResp /\ QrCheckIn(p, u, req)
    \/ AttAssign(p)
    \/ AttCreate(p)
    \/ AttFinalize(p)
    \/ QrCreate(p)
    \/ Tick(p, ClockPoints)

\* the window gates: a guard, a staff user or a plain user checks in for the
\* day shift or the overnight shift at any of the clock points
WindowRequests ==
    [shift_id : {None, 1, 2}, qr : {QrNone("absent"), QrDict(1, None), QrDict(None, 101)},
     force : BOOLEAN, client_timestamp : {None, At(RunDate, 18, 0)}]

InitWindow ==
    /\ \E g \in {None, 2} : shifts = AllocWorld({}, {}, [s \in RunIds |-> IF s = 1 THEN g ELSE None])
    /\ clock \in ClockPoints
    /\ staff_can_force \in BOOLEAN
    /\ InitRequests

NextWindow == CheckinOnce("A", {1, 3, 4}, WindowRequests)

SpecWindow == InitWindow /\ [][NextWindow]_vars

\* the payload gate: every shape of payload, inside and outside the window
PayloadRequests ==
    [shift_id : {None, 1, 3, 99},
     qr : {QrNone("absent"), QrNone("bad"), QrDict(9, None), QrDict(None, 109)}
            \cup {QrDict(i, u) : i \in {None, 1, 2}, u \in {None, 101, 102}},
     force : BOOLEAN, client_timestamp : {None}]

InitPayload ==
    /\ shifts = AllocWorld({}, {}, [s \in RunIds |-> None])
    /\ clock \in {At(RunDate, 7, 50), At(RunDate, 17, 5)}
    /\ staff_can_force \in BOOLEAN
    /\ InitRequests

NextPayload == CheckinOnce("A", {1, 3}, PayloadRequests)

SpecPayload == InitPayload /\ [][NextPayload]_vars

\* the resolver's world: any subset of six shifts of premise 1 around the
\* run date (overnight, overlapping, and two days away on either side), one
\* shift of premise 2, and a guard scanning the premise's code
ResolveIds == 1..6
OtherPremiseId == 7

ResolveRow(s) ==
    CASE s = 1 -> ShiftRow(1, RunDate - 2, T(23, 30), T(23, 0), <<>>, None)
      [] s = 2 -> ShiftRow(1, RunDate - 1, T(22, 0), T(6, 0), <<>>, None)
      [] s = 3 -> ShiftRow(1, RunDate, T(6, 30), T(14, 0), <<>>, None)
      [] s = 4 -> ShiftRow(1, RunDate, T(12, 0), T(20, 0), <<>>, None)
      [] s = 5 -> ShiftRow(1, RunDate + 1, T(8, 0), T(16, 0), <<>>, None)
      [] s = 6 -> ShiftRow(1, RunDate + 2, T(0, 30), T(8, 0), <<>>, None)
      [] s = 7 -> ShiftRow(2, RunDate, T(8, 0), T(16, 0), <<>>, None)

ResolvePoints ==
    {At(RunDate, 0, 0), At(RunDate, 6, 20), At(RunDate, 6, 50), At(RunDate, 12, 0),
     At(RunDate, 18, 0), At(RunDate, 21, 30), At(RunDate, 23, 30), At(RunDate + 1, 7, 30),
     At(RunDate + 1, 23, 0)}

ResolveRequests ==
    [shift_id : {None}, qr : {QrDict(1, None), QrDict(None, 101)},
     force : {FALSE}, client_timestamp : {None}]

InitResolve ==
    /\ \E W \in SUBSET ResolveIds :
         shifts = [s \in W \cup {OtherPremiseId} |-> ResolveRow(s)]
    /\ clock \in ResolvePoints
    /\ staff_can_force = FALSE
    /\ InitRequests

NextResolve ==
    \/ \E req \in ResolveRequests : resp["A"] = NoResp /\ QrCheckIn("A", 1, req)
    \/ QrCreate("A")

SpecResolve == InitResolve /\ [][NextResolve]_vars

\* repeated and concurrent check-ins of guards inside the window of shift 1,
\* each naming the shift and carrying its premise's payload
DupRequests ==
    [shift_id : {1}, qr : {QrDict(1, None)}, force : {FALSE}, client_timestamp : {None}]

InitDup ==
    /\ shifts = AllocWorld({}, {}, [s \in RunIds |-> None])
    /\ clock = At(RunDate, 7, 50)
    /\ staff_can_force = FALSE
    /\ InitRequests

\* two requests, one per client, interleaved at the granularity of their
\* database accesses
NextDup ==
    \E p \in Procs :
        \/ \E u \in {1, 2}, req \in DupRequests :
             resp[p] = NoResp /\ AttendancePost(p, u, req)
        \/ \E u \in {1, 2}, req \in DupRequests :
             resp[p] = NoResp /\ QrCheckIn(p, u, req)
        \/ AttAssign(p)
        \/ AttCreate(p)
        \/ AttFinalize(p)
        \/ QrCreate(p)
        \/ Tick(p, {At(RunDate, 16, 30)})

SpecDup == InitDup /\ [][NextDup]_vars

\* the same requests one after the other, up to MaxRecords records
NextRepeat ==
    \/ \E u \in {1, 2}, req \in DupRequests :
         Len(attendance) < MaxRecords /\ AttendancePost("A", u, req)
    \/ \E u \in {1, 2}, req \in DupRequests :
         Len(attendance) < MaxRecords /\ QrCheckIn("A", u, req)
    \/ AttAssign("A")
    \/ AttCreate("A")
    \/ AttFinalize("A")
    \/ QrCreate("A")
    \/ Tick("A", {At(RunDate, 16, 30)})

SpecRepeat == InitDup /\ [][NextRepeat]_vars

\* an allocation run (request A) racing a check-in through POST /attendance/
\* (request B) by a guard inside the window of shift 1, interleaved at the
\* granularity of their database accesses
InitRace ==
    /\ \E n1 \in {0, MAX_CONSECUTIVE_DAYS}, a \in [RunIds -> {None, 1, 2}] :
         shifts = AllocWorld(HistoryDays(n1, FALSE), {}, a)
    /\ clock = At(RunDate, 7, 50)
    /\ staff_can_force = FALSE
    /\ InitRequests

NextRace ==
    \/ StartAllocOnce("A")
    \/ AllocLoop("A")
    \/ AllocSave("A")
    \/ \E u \in {1, 2}, req \in DupRequests : resp["B"] = NoResp /\ AttendancePost("B", u, req)
    \/ AttAssign("B")
    \/ AttCreate("B")
    \/ AttFinalize("B")

SpecRace == InitRace /\ [][NextRace]_vars

\* check-ins through POST /attendance/checkin/ and POST /api/allocate/
\* requests one after the other, every publish free to fail
NextNotify ==
    \/ \E u \in {1, 2}, req \in DupRequests :
         Len(attendance) < MaxRecords /\ QrCheckIn("A", u, req)
    \/ QrCreate("A")
    \/ \E i \in AllocateInputs : AllocatePost("A", i.premise_id, i.limit_per_shift)
    \/ AllocateSteps("A")

SpecNotify == InitDup /\ [][NextNotify]_vars

\* check-ins one after the other through either endpoint, by a guard with
\* the skills of shift 1, a guard with none and a staff user, for the day
\* shift or the overnight shift, each held by nobody or by one of the guards
BindRequests ==
    [shift_id : {1, 2}, qr : {QrDict(1, None)}, force : BOOLEAN, client_timestamp : {None}]

InitBind ==
    /\ \E g1 \in {None, 1, 2}, g2 \in {None, 1, 2} :
         shifts = AllocWorld({}, {}, [s \in RunIds |-> CASE s = 1 -> g1 [] s = 2 -> g2 [] OTHER -> None])
    /\ clock \in {At(RunDate, 7, 50), At(RunDate, 23, 50)}
    /\ staff_can_force \in BOOLEAN
    /\ InitRequests

NextBind ==
    \/ \E u \in {1, 2, 3}, req \in BindRequests :
         Len(attendance) < MaxRecords /\ AttendancePost("A", u, req)
    \/ \E u \in {1, 2, 3}, req \in BindRequests :
         Len(attendance) < MaxRecords /\ QrCheckIn("A", u, req)
    \/ AttAssign("A")
    \/ AttCreate("A")
    \/ AttFinalize("A")
    \/ QrCreate("A")

SpecBind == InitBind /\ [][NextBind]_vars

\* one check-in through POST /attendance/ whose writes after the
\* auto-assignment are free to fail
NextAtomic ==
    \/ \E u \in {1, 2, 3}, req \in BindRequests :
         resp["A"] = NoResp /\ AttendancePost("A", u, req)
    \/ AttAssign("A")
    \/ AttCreate("A")
    \/ AttCreateFails("A")
    \/ AttFinalize("A")
    \/ AttFinalizeFails("A")

SpecAtomic == InitBind /\ [][NextAtomic]_vars

----------------------------------------------------------------------------
(* Properties *)

NoDoubleDay(sh, d) ==
    \A s, t \in DayShifts(sh, d) :
        (s # t /\ sh[s].assigned_guard # None) => sh[s].assigned_guard # sh[t].assigned_guard

\* C1: a run of run_allocation_for_day(D) with no concurrent writer that
\* starts with no guard on two shifts dated D ends with no guard on two
\* shifts dated D; checked step by step: no step of the run breaks it.
C1_SingleAssignmentPerDay ==
    [][NoDoubleDay(shifts, RunDate) => NoDoubleDay(shifts', RunDate)]_vars

\* a completed run that assigned a guard and had to leave a shift without
\* candidates because every guard was taken that day
C1_Witness ==
    /\ pc["A"] = "idle"
    /\ resp["A"].kind = "alloc_day"
    /\ resp["A"].assigned >= 2
    /\ \E s \in RunIds : resp["A"].shifts[s] = "no_candidates"
    /\ NoDoubleDay(shifts, RunDate)

\* the run of request p reports shift s as assigned by it
Won(p, s) ==
    \/ /\ loc[p].kind = "alloc_day"
       /\ s \in DOMAIN loc[p].results
       /\ loc[p].results[s] = "assigned"
    \/ /\ resp[p].kind = "alloc_day"
       /\ s \in DOMAIN resp[p].shifts
       /\ resp[p].shifts[s] = "assigned"

\* C2: of two concurrent run_allocation_for_day runs on one date, at most
\* one wins (commits and reports "assigned" for) any given shift.
C2_AtMostOneWinner ==
    \A s \in RunIds : ~(Won("A", s) /\ Won("B", s))

\* the window and end instant as specified: early 15, late 60, an end at or
\* before the start lying on the following day
EndInstant(row) ==
    Combine(row.date, row.end_time) + (IF row.end_time <= row.start_time THEN DAY ELSE 0)
AllowedStart(row) == Combine(row.date, row.start_time) - 15
AllowedEnd(row) == EndInstant(row) + 60
InsideAllowed(row, now) == AllowedStart(row) <= now /\ now <= AllowedEnd(row)

IsCheckin(r) == r.kind \in {"attendance", "checkin"}
Created(r) == IsCheckin(r) /\ r.code = "Created"

\* C3: a check-in by a caller who already has a record for the shift creates
\* no record: every record a successful response reports is the first of its
\* (guard, shift) pair.
C3_DuplicateRejected ==
    \A p \in Procs : Created(resp[p]) =>
        ~\E j \in 1..Len(attendance) :
            /\ j < resp[p].record
            /\ attendance[j].guard = resp[p].user
            /\ attendance[j].shift = resp[p].shift

\* C4: whatever the interleaving of two check-in requests, the table holds at
\* most one record per (guard, shift) pair.
C4_UniquePair ==
    \A i, j \in 1..Len(attendance) :
        i < j => ~(attendance[i].guard = attendance[j].guard
                   /\ attendance[i].shift = attendance[j].shift)

\* C5: a record for a check-in evaluated outside the shift's allowed window
\* exists only when the force flag was set by a staff user with the override
\* enabled, on both endpoints.
C5_OutsideWindowNeedsForce ==
    \A p \in Procs :
        (Created(resp[p]) /\ ~InsideAllowed(shifts[resp[p].shift], resp[p].now))
            => StaffForced(resp[p].user, resp[p].force)

\* C6: for a shift with start < end, an unforced check-in by a guard that
\* reaches the window gate of POST /attendance/ is accepted exactly when
\* start - 15min <= now <= end + 60min, bounds included.
C6_DayWindowInclusive ==
    \A p \in Procs :
        LET r == resp[p] IN
        ( /\ r.kind = "attendance"
          /\ r.code \notin {"ValidationError", "ShiftNotResolved", "PayloadMismatch"}
          /\ is_guard[r.user] /\ ~r.force
          /\ shifts[r.shift].start_time < shifts[r.shift].end_time )
        => ( r.code = "Created"
               <=> /\ Combine(shifts[r.shift].date, shifts[r.shift].start_time) - 15 <= r.now
                   /\ r.now <= Combine(shifts[r.shift].date, shifts[r.shift].end_time) + 60 )

\* a guard accepted for the 08:00-16:00 shift at 17:00 sharp
C6_Witness ==
    /\ resp["A"].kind = "attendance"
    /\ resp["A"].code = "Created"
    /\ resp["A"].shift = 1
    /\ is_guard[resp["A"].user] /\ ~resp["A"].force
    /\ resp["A"].now = At(RunDate, 17, 0)

\* C7: the record of every successful check-in ends ON_TIME when its
\* check_in_time is at or before the shift's end instant and LATE otherwise.
C7_StatusByEndInstant ==
    \A p \in Procs : Created(resp[p]) =>
        LET rec == attendance[resp[p].record] IN
        rec.status = IF rec.check_in_time <= EndInstant(shifts[rec.shift])
                     THEN "ON_TIME" ELSE "LATE"

\* C8: for a shift with end_time <= start_time the window gate never turns
\* away a guard at 23:50 on the shift's date or at 05:30 on the next day.
C8_OvernightAccepted ==
    \A p \in Procs :
        LET r == resp[p] IN
        ( /\ IsCheckin(r) /\ r.shift # None
          /\ shifts[r.shift].end_time <= shifts[r.shift].start_time
          /\ is_guard[r.user]
          /\ r.now \in {At(shifts[r.shift].date, 23, 50), At(shifts[r.shift].date + 1, 5, 30)} )
        => r.code # "OutsideWindow"

\* C9: no record is created from a payload whose premise id or uuid differs
\* from the resolved shift's premise, on either endpoint.
C9_PayloadMatchesPremise ==
    \A p \in Procs : Created(resp[p]) =>
        LET rec == attendance[resp[p].record]
            q == rec.qr_payload
            premise == shifts[rec.shift].premise
        IN /\ q.id # None => q.id = premise
           /\ q.uuid # None => q.uuid = premise_uuid[premise]

\* g holds an assignment on each of the n days before d
StreakOf(sh, g, d, n) ==
    \A i \in 1..n : \E s \in DOMAIN sh : sh[s].date = d - i /\ sh[s].assigned_guard = g

\* C10: a guard assigned on each of the 6 days before the run date is in
\* find_candidates of no shift of that date and is never the guard a run of
\* run_allocation_for_day is about to commit.
C10_StreakExcluded ==
    \A g \in Users : StreakOf(shifts, g, RunDate, 6) =>
        /\ \A s \in DayShifts(shifts, RunDate) : g \notin SeqRange(find_candidates(shifts, s))
        /\ \A p \in Procs : pc[p] = "alloc_save" => loc[p].best # g

\* a run that completed, assigned somebody and reported a shift without
\* candidates while a guard free that day stayed out for a six-day streak
C10_Witness ==
    /\ pc["A"] = "idle"
    /\ resp["A"].kind = "alloc_day"
    /\ resp["A"].assigned >= 1
    /\ \E s \in RunIds : resp["A"].shifts[s] = "no_candidates"
    /\ \E g \in Users :
         /\ is_guard[g]
         /\ StreakOf(shifts, g, RunDate, 6)
         /\ ~HasAssignmentOn(shifts, g, RunDate)

\* every row the run of request p loaded at its start carried a guard
LoadedAllAssigned(p) ==
    /\ loc[p].kind = "alloc_day"
    /\ \A s \in DOMAIN loc[p].rows : loc[p].rows[s] # None

\* C11: a run of run_allocation_for_day on a date whose shifts all carry a
\* guard when it starts changes no persisted state in any of its steps and
\* ends with already_assigned for every shift of the date, assigned = 0 and
\* unassigned = 0.
C11_RerunIdempotent ==
    [][LoadedAllAssigned("A") =>
         /\ shifts' = shifts /\ attendance' = attendance /\ sent' = sent
         /\ resp'["A"] # NoResp =>
              /\ resp'["A"].kind = "alloc_day"
              /\ DOMAIN resp'["A"].shifts = DayShifts(shifts, RunDate)
              /\ \A s \in DayShifts(shifts, RunDate) :
                    resp'["A"].shifts[s] = "already_assigned"
              /\ resp'["A"].assigned = 0
              /\ resp'["A"].unassigned = 0]_vars

\* a completed run over three assigned shifts, two of them held by the
\* same guard, that reported all three as already assigned
C11_Witness ==
    /\ pc["A"] = "idle"
    /\ resp["A"].kind = "alloc_day"
    /\ resp["A"].total_shifts = 3
    /\ \A s \in RunIds : resp["A"].shifts[s] = "already_assigned"
    /\ \A s \in RunIds : shifts[s].assigned_guard # None
    /\ shifts[1].assigned_guard = shifts[3].assigned_guard

\* C12: a run of run_allocation_for_day in which a save may fail still ends
\* with the summary: every shift of the date has an outcome, and every shift
\* reported assigned carries a guard.
C12_SaveFailureIsolated ==
    \A p \in Procs : resp[p].kind \in {"alloc_day", "exception"} =>
        /\ resp[p].kind = "alloc_day"
        /\ \A s \in DayShifts(shifts, resp[p].run_date) :
              /\ resp[p].shifts[s] # "pending"
              /\ resp[p].shifts[s] = "assigned" => shifts[s].assigned_guard # None

\* C13: every shift a run of run_allocation_for_day reports as assigned, and
\* every shift a check-in auto-assigned, has a non-null assigned_at.
C13_AssignedAtSet ==
    \A p \in Procs :
        /\ \A s \in RunIds : Won(p, s) => shifts[s].assigned_at # None
        /\ (Created(resp[p]) /\ resp[p].auto_assigned) =>
              shifts[resp[p].shift].assigned_at # None

\* the guard's normalized tags contain none of the shift's required tags
HoldsNoRequired(sh, g, s) ==
    LET held == {Lower(Strip(x)) : x \in SeqRange(profile_skills[g])}
        req == sh[s].required_skills
    IN \A i \in 1..Len(req) : Lower(Strip(req[i])) \notin held

\* C14: under the default threshold 0.0 no step of a run reports
\* rejected_by_skill_threshold, and whenever the loop reaches an unassigned
\* shift with at least one candidate it goes on to save one of them, also
\* when the candidate holds none of the required skills.
C14_DefaultThresholdNeverRejects ==
    [][/\ loc'["A"].kind = "alloc_day" =>
            \A s \in DOMAIN loc'["A"].results :
                loc'["A"].results[s] # "rejected_by_skill_threshold"
       /\ resp'["A"].kind = "alloc_day" =>
            \A s \in DOMAIN resp'["A"].shifts :
                resp'["A"].shifts[s] # "rejected_by_skill_threshold"
       /\ \A s \in RunIds :
            ( /\ pc["A"] = "alloc_loop"
              /\ loc["A"].idx <= Len(loc["A"].queue)
              /\ loc["A"].queue[loc["A"].idx] = s
              /\ shifts[s].assigned_guard = None
              /\ find_candidates_set(shifts, s) # {} )
            => /\ pc'["A"] = "alloc_save"
               /\ loc'["A"].best \in find_candidates_set(shifts, s)]_vars

\* a completed run gave the shift requiring armed and CCTV to the guard who
\* holds neither: 0 of 2 matched
C14_Witness ==
    /\ pc["A"] = "idle"
    /\ Won("A", 1)
    /\ shifts[1].assigned_guard = 2
    /\ Len(shifts[1].required_skills) = 2
    /\ HoldsNoRequired(shifts, 2, 1)
    /\ skill_frac(shifts, 2, 1)[1] = 0

\* the premises a payload identifies by id or by uuid
NamedPremises(qr) ==
    {pr \in Premises : qr.form = "dict" /\ (qr.id = pr \/ qr.uuid = premise_uuid[pr])}

\* u holds no attendance record yet
NoPriorRecord(u) == \A i \in 1..Len(attendance) : attendance[i].guard # u

\* the request passed every gate of its endpoint and is about to record
\* attendance against a shift of premise pr whose allowed window contains now
ProceedsAgainst(p, pr, now) ==
    /\ resp'[p] = NoResp
    /\ loc'[p].kind \in {"attendance", "checkin"}
    /\ shifts[loc'[p].shift].premise = pr
    /\ InsideAllowed(shifts[loc'[p].shift], now)

\* C15: on both endpoints a check-in by a guard without a prior record that
\* carries no shift id and a payload identifying a premise with a shift whose
\* allowed window contains now is not rejected and goes on to record
\* attendance against such a shift.
C15_PayloadOnlyCheckinSucceeds ==
    [][\A u \in Users, req \in WindowRequests, pr \in Premises :
         ( /\ is_guard[u] /\ NoPriorRecord(u)
           /\ req.shift_id = None /\ req.client_timestamp = None
           /\ NamedPremises(req.qr) = {pr}
           /\ \E s \in DOMAIN shifts :
                 shifts[s].premise = pr /\ InsideAllowed(shifts[s], clock)
           /\ (AttendancePost("A", u, req) \/ QrCheckIn("A", u, req)) )
         => ProceedsAgainst("A", pr, clock)]_vars

\* the shifts of premise pr dated within the tolerance of now's date, and
\* those of them whose allowed window contains now
InTolerance(sh, pr, now) ==
    {s \in DOMAIN sh : /\ sh[s].premise = pr
                       /\ sh[s].date >= LocalDate(now) - 1
                       /\ sh[s].date <= LocalDate(now) + 1}

OpenNow(sh, pr, now) == {s \in InTolerance(sh, pr, now) : InsideAllowed(sh[s], now)}

\* s comes no later than t in date-then-start-time order
DateStartBefore(sh, s, t) ==
    \/ sh[s].date < sh[t].date
    \/ sh[s].date = sh[t].date /\ sh[s].start_time <= sh[t].start_time

\* the serializer accepted the request and resolved it to shift s
ResolvedTo(p, s) == resp'[p] = NoResp /\ loc'[p].kind = "checkin" /\ loc'[p].shift = s

\* C16: resolving a premise scan, the resolver never returns a shift dated
\* outside today-1..today+1, and when a shift of the premise in that range has
\* an allowed window containing now it returns the first such shift in
\* date-then-start-time order.
C16_ResolverFirstOpenWindow ==
    [][\A req \in ResolveRequests, pr \in Premises :
         (NamedPremises(req.qr) = {pr} /\ QrCheckIn("A", 1, req)) =>
            /\ resp'["A"] = NoResp => loc'["A"].shift \in InTolerance(shifts, pr, clock)
            /\ OpenNow(shifts, pr, clock) # {} =>
                 \E s \in OpenNow(shifts, pr, clock) :
                    /\ ResolvedTo("A", s)
                    /\ \A x \in OpenNow(shifts, pr, clock) : DateStartBefore(shifts, s, x)]_vars

\* at 06:20 yesterday's overnight shift (window to 07:00) was returned
\* although today's 06:30 shift is open too
C16_Witness ==
    /\ pc["A"] = "qr_create"
    /\ clock = At(RunDate, 6, 20)
    /\ {2, 3} \subseteq OpenNow(shifts, 1, clock)
    /\ loc["A"].shift = 2

\* C17 as claimed: when no window of the premise's shifts in range contains
\* now, the resolver returns a shift dated today if the premise has one, and
\* otherwise the shift whose window start is nearest to now.
C17_FallbackTodayFirst ==
    [][\A req \in ResolveRequests, pr \in Premises :
         ( /\ NamedPremises(req.qr) = {pr} /\ QrCheckIn("A", 1, req)
           /\ OpenNow(shifts, pr, clock) = {}
           /\ InTolerance(shifts, pr, clock) # {} )
         => \E s \in InTolerance(shifts, pr, clock) :
              /\ ResolvedTo("A", s)
              /\ IF \E x \in InTolerance(shifts, pr, clock) : shifts[x].date = LocalDate(clock)
                 THEN shifts[s].date = LocalDate(clock)
                 ELSE \A x \in InTolerance(shifts, pr, clock) :
                        Abs(AllowedStart(shifts[s]) - clock) <= Abs(AllowedStart(shifts[x]) - clock)]_vars

\* C17 amended: when no window of the premise's shifts in range contains now,
\* the resolver returns the shift in range whose start instant is nearest to
\* now, the earliest in date-then-start-time order among equally near ones,
\* whether or not the premise has a shift dated today.
C17_FallbackNearestStart ==
    [][\A req \in ResolveRequests, pr \in Premises :
         ( /\ NamedPremises(req.qr) = {pr} /\ QrCheckIn("A", 1, req)
           /\ OpenNow(shifts, pr, clock) = {}
           /\ InTolerance(shifts, pr, clock) # {} )
         => \E s \in InTolerance(shifts, pr, clock) :
              /\ ResolvedTo("A", s)
              /\ \A x \in InTolerance(shifts, pr, clock) :
                    LET ds == Abs(Combine(shifts[s].date, shifts[s].start_time) - clock)
                        dx == Abs(Combine(shifts[x].date, shifts[x].start_time) - clock)
                    IN ds < dx \/ (ds = dx /\ DateStartBefore(shifts, s, x))]_vars

\* at 23:30 no window is open, the premise has two shifts dated today, and
\* tomorrow's 08:00 shift, the nearest start, was returned
C17_Witness ==
    /\ pc["A"] = "qr_create"
    /\ clock = At(RunDate, 23, 30)
    /\ OpenNow(shifts, 1, clock) = {}
    /\ {3, 4, 5} \subseteq DOMAIN shifts
    /\ loc["A"].shift = 5

\* neither the request's shift id nor its payload leads to a shift
NothingResolves(sh, req, now) ==
    /\ req.shift_id = None \/ req.shift_id \notin DOMAIN sh
    /\ \A pr \in NamedPremises(req.qr) : InTolerance(sh, pr, now) = {}

\* the request was turned away at resolution and nothing was written
TurnedAway(p) ==
    /\ IsCheckin(resp'[p])
    /\ resp'[p].code \in {"ShiftNotResolved", "ValidationError"}
    /\ pc'[p] = "idle"
    /\ attendance' = attendance

\* C18: on both endpoints a check-in whose shift id and payload both fail to
\* lead to a shift is turned away with no record created, and a check-in
\* whose shift id names no shift but whose payload identifies a premise with
\* a shift in range is resolved from the payload to a shift of that premise.
C18_UnresolvedRejectedUnknownIdFallsBack ==
    [][\A u \in Users, req \in PayloadRequests :
         (AttendancePost("A", u, req) \/ QrCheckIn("A", u, req)) =>
            /\ NothingResolves(shifts, req, clock) => TurnedAway("A")
            /\ \A pr \in Premises :
                 ( /\ req.shift_id # None /\ req.shift_id \notin DOMAIN shifts
                   /\ NamedPremises(req.qr) = {pr}
                   /\ InTolerance(shifts, pr, clock) # {} )
                 => /\ resp'["A"] = NoResp
                    /\ loc'["A"].shift \in InTolerance(shifts, pr, clock)]_vars

\* the streak as the bounded walk yields it: the largest n up to the cap
\* with an assignment on each of the n days before d
StreakLen(sh, g, d) ==
    LET S == {n \in 0..6 : StreakOf(sh, g, d, n)}
    IN CHOOSE n \in S : \A m \in S : m <= n

\* shifts assigned to g dated within the 7 days ending on d
RecentCount(sh, g, d) ==
    Cardinality({s \in DOMAIN sh : sh[s].assigned_guard = g /\ d - sh[s].date \in 0..6})

\* C19: for every guard g and shift S, with skillFraction = m/L, the score
\* times 10L equals 50m + L*(5*min(experience, 20) - 10*streak - 8*recent),
\* streak being g's streak before S.date and recent the number of shifts
\* assigned to g in the 7 days ending on S.date; and the breakdown's four
\* terms add up to its total, which is the returned score.
C19_ScoreFormula ==
    \A g \in Users, s \in RunIds :
        LET f == skill_frac(shifts, g, s)
            e == IF experience_years[g] < 20 THEN experience_years[g] ELSE 20
            b == breakdown(shifts, g, s)
        IN /\ score_guard_for_shift(shifts, g, s)
                = 50 * f[1] + f[2] * (5 * e - 10 * StreakLen(shifts, g, RunDate)
                                            - 8 * RecentCount(shifts, g, RunDate))
           /\ b.total = b.skill_score + b.experience_score
                          - b.consecutive_penalty - b.fairness_penalty
           /\ b.total = score_guard_for_shift(shifts, g, s)

\* the run is about to commit guard 1 (5 years, one day worked in the last
\* week, the day before) to the shift of which the guard matches 2 of 3
\* listed tags: 2/3*5.0 + 2.5 - 1.0 - 0.8, that is 121/30
C19_Witness ==
    /\ pc["A"] = "alloc_save"
    /\ loc["A"].queue[loc["A"].idx] = 3
    /\ loc["A"].best = 1
    /\ breakdown(shifts, 1, 3).consecutive_before = 1
    /\ breakdown(shifts, 1, 3).fairness_recent = 1
    /\ score_guard_for_shift(shifts, 1, 3) = 121
    /\ skill_frac(shifts, 1, 3)[2] = 3

\* the normalized tags of a comma-separated list, as a set
TagSet(raw) == {Lower(Strip(x)) : x \in {y \in SeqRange(raw) : Strip(y) # ""}}

\* C20: skill_frac is 1 when the shift's normalized required set is empty
\* and otherwise |required /\ guardSkills| / |required| over the normalized
\* sets, whatever tags the required list repeats.
C20_SkillFractionOverSets ==
    \A g \in Users, s \in DOMAIN shifts :
        LET required == TagSet(shifts[s].required_skills)
            held == TagSet(profile_skills[g])
            f == skill_frac(shifts, g, s)
        IN IF required = {} THEN f[1] = f[2]
           ELSE f[1] * Cardinality(required) = Cardinality(required \cap held) * f[2]

\* C21: a guard whose streak before the run date is at least
\* min(6, the guard's own max_consecutive_days) is in find_candidates of no
\* shift of that date and is never the guard a run is about to commit.
C21_PerGuardCap ==
    \A g \in Users :
        LET cap == IF max_consecutive_days[g] < 6 THEN max_consecutive_days[g] ELSE 6 IN
        (is_guard[g] /\ StreakOf(shifts, g, RunDate, cap)) =>
            /\ \A s \in DayShifts(shifts, RunDate) : g \notin SeqRange(find_candidates(shifts, s))
            /\ \A p \in Procs : pc[p] = "alloc_save" => loc[p].best # g

\* the shifts dated d that g is the assigned guard of
AssignedOn(sh, g, d) == {s \in DayShifts(sh, d) : sh[s].assigned_guard = g}

\* C22: no step of POST /api/allocate/ taken from a state in which every
\* guard holds at most one shift dated D leads to a state in which some guard
\* holds two shifts dated D.
C22_AllocateOnePerDay ==
    [][(\A g \in Users : Cardinality(AssignedOn(shifts, g, RunDate)) <= 1)
         => (\A g \in Users : Cardinality(AssignedOn(shifts', g, RunDate)) <= 1)]_vars

\* the check-in of request p wrote itself as the assigned guard of shift s
AutoAssigned(p, s) ==
    \/ loc[p].kind = "attendance" /\ loc[p].auto_assigned /\ loc[p].shift = s
    \/ Created(resp[p]) /\ resp[p].auto_assigned /\ resp[p].shift = s

\* C23: whatever the interleaving of an allocation run and a check-in with
\* auto-assignment, no shift has its assigned guard written by both.
C23_OneAssignmentWriter ==
    \A s \in RunIds : ~(Won("A", s) /\ AutoAssigned("B", s))

\* C24: whatever part of the notifications goes out, the step of
\* POST /attendance/checkin/ that creates the record answers 201 with the
\* record persisted, the step of POST /api/allocate/ that saves an assignment
\* keeps it and goes on, and the commit persists every assignment saved and
\* reports all of them.
C24_NotifyFailureIsolated ==
    [][/\ pc["A"] = "qr_create" =>
            /\ Created(resp'["A"])
            /\ Len(attendance') = Len(attendance) + 1
            /\ attendance'[resp'["A"].record].guard = loc["A"].user
            /\ attendance'[resp'["A"].record].shift = loc["A"].shift
       /\ pc["A"] = "av_save" =>
            /\ pc'["A"] = "av_lock"
            /\ Cardinality(loc'["A"].writes) = Cardinality(loc["A"].writes) + 1
            /\ Len(loc'["A"].assignments) = Len(loc["A"].assignments) + 1
       /\ pc["A"] = "av_commit" =>
            /\ resp'["A"].code = "OK"
            /\ resp'["A"].count = Cardinality(loc["A"].writes)
            /\ \A w \in loc["A"].writes : shifts'[w.shift].assigned_guard = w.guard]_vars

\* a check-in answered 201 and an allocation committed an assignment while
\* not one message was delivered
C24_Witness ==
    /\ sent = {}
    /\ Len(attendance) >= 1
    /\ resp["A"].kind = "allocate"
    /\ resp["A"].count >= 1
    /\ \A i \in 1..resp["A"].count :
          shifts[resp["A"].assignments[i].shift].assigned_guard
            = resp["A"].assignments[i].guard

\* C25: a range run enters the day algorithm for its current date only, with
\* exactly the earlier dates of the range done and every shift those days
\* reported assigned still carrying a guard; no step of the run, a failing
\* save included, takes a guard off a shift; and the result returned has
\* exactly the dates start..end as its entries, each the result of that date.
C25_RangeIsDayByDay ==
    [][/\ (pc["B"] = "range_call" /\ pc["A"] = "idle" /\ pc'["A"] = "alloc_loop") =>
            /\ loc'["A"].run_date = loc["B"].cur
            /\ DOMAIN loc["B"].out = {d \in loc["B"].start_date..loc["B"].end_date :
                                        d < loc["B"].cur}
            /\ \A d \in DOMAIN loc["B"].out : \A s \in DOMAIN loc["B"].out[d].shifts :
                  loc["B"].out[d].shifts[s] = "assigned" => shifts[s].assigned_guard # None
       /\ \A s \in DOMAIN shifts :
            shifts[s].assigned_guard # None
              => shifts'[s].assigned_guard = shifts[s].assigned_guard
       /\ resp'["B"].kind = "alloc_range" =>
            /\ DOMAIN resp'["B"].out = resp'["B"].start_date..resp'["B"].end_date
            /\ \A d \in DOMAIN resp'["B"].out :
                  /\ resp'["B"].out[d].run_date = d
                  /\ DOMAIN resp'["B"].out[d].shifts = DayShifts(shifts, d)]_vars

\* a two-day range returned both days, the second of which left a shift
\* without candidates while the first had assigned somebody
C25_Witness ==
    /\ resp["B"].kind = "alloc_range"
    /\ DOMAIN resp["B"].out = {RunDate, RunDate + 1}
    /\ resp["B"].out[RunDate].assigned >= 1
    /\ \E s \in {4, 5} : resp["B"].out[RunDate + 1].shifts[s] = "no_candidates"
    /\ \E s \in {4, 5} : resp["B"].out[RunDate + 1].shifts[s] = "assigned"

\* C26: on both endpoints a check-in by a user who is not a guard ends with
\* a record only when it is a force by a staff user with the override on,
\* and is otherwise answered as a policy violation with nothing written.
C26_NonGuardRejected ==
    \A p \in Procs :
        (IsCheckin(resp[p]) /\ ~is_guard[resp[p].user]
           /\ ~StaffForced(resp[p].user, resp[p].force))
        => /\ resp[p].code # "Created"
           /\ \A i \in 1..Len(attendance) : attendance[i].guard # resp[p].user

\* C27: the guard a run is about to commit for a shift is a candidate whose
\* score no candidate exceeds, and of the candidates with that score the one
\* find_candidates enumerates first (the lowest primary key).
C27_BestScoreStable ==
    \A p \in Procs : pc[p] = "alloc_save" =>
        LET s == loc[p].queue[loc[p].idx]
            g == loc[p].best
            C == find_candidates_set(shifts, s)
        IN /\ g \in C
           /\ \A c \in C :
                /\ score_guard_for_shift(shifts, c, s) <= score_guard_for_shift(shifts, g, s)
                /\ score_guard_for_shift(shifts, c, s) = score_guard_for_shift(shifts, g, s)
                     => g <= c

\* both guards are candidates for the overnight shift with the same score
\* (5.0 + 2.5 - 1.0 - 0.8 and 5.0 + 1.5 - 0.8) and the run is about to
\* commit the one enumerated first
C27_Witness ==
    /\ pc["A"] = "alloc_save"
    /\ loc["A"].queue[loc["A"].idx] = 2
    /\ find_candidates_set(shifts, 2) = {1, 2}
    /\ score_guard_for_shift(shifts, 1, 2) = score_guard_for_shift(shifts, 2, 2)
    /\ score_guard_for_shift(shifts, 1, 2) = 57
    /\ loc["A"].best = 1

\* the table as it was when a finished run started: the rows the run
\* reports as assigned had no guard
BeforeRun(r) ==
    [s \in DOMAIN shifts |->
        IF s \in DOMAIN r.shifts /\ r.shifts[s] = "assigned"
        THEN [shifts[s] EXCEPT !.assigned_guard = None]
        ELSE shifts[s]]

\* the rows of the day that had no guard when the run started
OpenAtStart(r) == {s \in DOMAIN r.shifts : r.shifts[s] # "already_assigned"}

\* C28: a run takes the day's shifts in ascending start_time and every
\* guard it has saved is in the table before the next shift is scored;
\* so when exactly two shifts of the day were unassigned at the start and
\* one and the same guard was the only candidate of each, the shift that
\* starts earlier ends with that guard and the later one with no_candidates.
C28_EarlierShiftWins ==
    /\ \A p \in Procs : pc[p] \in {"alloc_loop", "alloc_save"} =>
          \A j \in 1..Len(loc[p].queue) : j < loc[p].idx =>
              /\ \A k \in j..Len(loc[p].queue) :
                    shifts[loc[p].queue[j]].start_time <= shifts[loc[p].queue[k]].start_time
              /\ loc[p].results[loc[p].queue[j]] = "assigned"
                    => shifts[loc[p].queue[j]].assigned_guard # None
    /\ \A p \in Procs : resp[p].kind = "alloc_day" =>
          LET r == resp[p]
              sh0 == BeforeRun(r)
          IN \A s1, s2 \in OpenAtStart(r), g \in Users :
                (/\ OpenAtStart(r) = {s1, s2}
                 /\ shifts[s1].start_time < shifts[s2].start_time
                 /\ find_candidates_set(sh0, s1) = {g}
                 /\ find_candidates_set(sh0, s2) = {g})
                => /\ r.shifts[s1] = "assigned"
                   /\ shifts[s1].assigned_guard = g
                   /\ r.shifts[s2] = "no_candidates"
                   /\ shifts[s2].assigned_guard = None

\* the morning and the overnight shift of premise 1 were open, guard 2 held
\* the third shift of the day, and guard 1 went to the morning shift
C28_Witness ==
    /\ resp["A"].kind = "alloc_day"
    /\ OpenAtStart(resp["A"]) = {1, 2}
    /\ find_candidates_set(BeforeRun(resp["A"]), 1) = {1}
    /\ find_candidates_set(BeforeRun(resp["A"]), 2) = {1}
    /\ shifts[1].assigned_guard = 1
    /\ resp["A"].shifts[2] = "no_candidates"

\* C29: with check-ins served one after the other, a shift's guard changes
\* only by the auto-assignment of a check-in to that shift, only from no
\* guard to the caller, and only when the caller is a guard whose skills
\* include every required skill of the shift (the minimum experience is 0);
\* a shift that has a guard keeps him through every check-in.
C29_AutoAssignGuarded ==
    [][\A s \in DOMAIN shifts :
          shifts'[s].assigned_guard # shifts[s].assigned_guard =>
              /\ shifts[s].assigned_guard = None
              /\ \E p \in Procs :
                    /\ pc[p] = "att_assign"
                    /\ loc[p].shift = s
                    /\ shifts'[s].assigned_guard = loc[p].user
                    /\ is_guard[loc[p].user]
                    /\ \A k \in SeqRange(_split_tags(shifts[s].required_skills)) :
                          k \in SeqRange(_split_tags(profile_skills[loc[p].user]))]_vars

\* the day shift was guard 2's; guard 2 checked in for it and then guard 1,
\* who holds every skill the shift requires: his check-in was accepted
\* without auto-assignment and the shift is still guard 2's
C29_Witness ==
    /\ Len(attendance) = 2
    /\ attendance[1].guard = 2 /\ attendance[1].shift = 1
    /\ attendance[2].guard = 1 /\ attendance[2].shift = 1
    /\ resp["A"].kind = "attendance" /\ resp["A"].code = "Created"
    /\ resp["A"].user = 1 /\ ~resp["A"].auto_assigned
    /\ shifts[1].assigned_guard = 2

\* C30: a check-in through POST /attendance/ persists all of its writes or
\* none: a request that ended in a failure of the insert or of the status
\* save has left no attendance record and, where it had auto-assigned the
\* caller, the shift is without a guard again; a request answered 201 has
\* its record and, where it reports auto_assigned, the shift is the caller's.
C30_CheckinAtomic ==
    \A p \in Procs : resp[p].kind = "attendance" =>
        /\ resp[p].code = "ServerError" =>
              /\ \A i \in 1..Len(attendance) :
                    ~(attendance[i].guard = resp[p].user /\ attendance[i].shift = resp[p].shift)
              /\ resp[p].auto_assigned => shifts[resp[p].shift].assigned_guard = None
        /\ resp[p].code = "Created" =>
              /\ resp[p].record \in 1..Len(attendance)
              /\ resp[p].auto_assigned => shifts[resp[p].shift].assigned_guard = resp[p].user

RejectionCodes ==
    {"ValidationError", "ShiftNotResolved", "PayloadMismatch",
     "OutsideWindow", "NotGuard"}

\* C31: the step in which a check-in is answered with a rejection (bad or
\* unusable payload, shift not resolved, payload mismatch, outside the
\* window, caller not a guard) ends the request and changes neither the
\* attendance records nor any shift's assigned_guard or assigned_at.
C31_RejectionWritesNothing ==
    [][\A p \in Procs :
          (/\ resp'[p] # resp[p]
           /\ IsCheckin(resp'[p])
           /\ resp'[p].code \in RejectionCodes)
          => /\ attendance' = attendance
             /\ \A s \in DOMAIN shifts :
                   /\ shifts'[s].assigned_guard = shifts[s].assigned_guard
                   /\ shifts'[s].assigned_at = shifts[s].assigned_at
             /\ pc'[p] = "idle"]_vars

\* guard 1, who would have been auto-assigned to the open day shift, was
\* turned away five minutes after the window closed: no record, no guard
C31_Witness ==
    /\ resp["A"].kind = "attendance"
    /\ resp["A"].code = "OutsideWindow"
    /\ resp["A"].user = 1 /\ resp["A"].shift = 1
    /\ clock = At(RunDate, 17, 5)
    /\ attendance = <<>>
    /\ shifts[1].assigned_guard = None

\* C32: the moment stored as a record's check_in_time is the moment the
\* window gate judged: every record created through POST /attendance/
\* without a force by an authorized staff user has its check_in_time
\* within [allowedStart, allowedEnd] of its shift.
C32_StoredTimeInWindow ==
    \A p \in Procs :
        (/\ resp[p].kind = "attendance"
         /\ resp[p].code = "Created"
         /\ ~StaffForced(resp[p].user, resp[p].force))
        => InsideAllowed(shifts[resp[p].shift], attendance[resp[p].record].check_in_time)

\* C33: every check-in answered as created, on either endpoint, comes with
\* exactly one attempt, made after the record was stored, to publish the
\* attendance event to the topic of the guard who checked in.
C33_CheckinPublishesOnce ==
    \A p \in Procs : Created(resp[p]) =>
        /\ resp[p].record \in 1..Len(attendance)
        /\ resp[p].publishes = 1

\* C34: when a run of run_allocation_for_day has returned, every shift it
\* reports as assigned has an assignment event published to the topic of
\* the guard it was assigned to.
C34_AssignedIsNotified ==
    \A p \in Procs : resp[p].kind = "alloc_day" =>
        \A s \in DOMAIN resp[p].shifts :
            resp[p].shifts[s] = "assigned" =>
                \E m \in sent :
                    /\ m.kind = "assignment.created"
                    /\ m.topic = <<"user", shifts[s].assigned_guard>>
                    /\ m.ref = s

\* the shifts a finished POST /api/allocate/ reports as assigned by it
ReportedShifts(r) ==
    IF r.kind = "allocate" THEN {r.assignments[i].shift : i \in 1..Len(r.assignments)} ELSE {}

\* C35: whatever the interleaving of two POST /api/allocate/ requests for
\* the same premise and date, a shift's guard is only ever written over no
\* guard (a committed assignment is never overwritten), no shift is reported
\* as assigned by both requests, and what a request reports is what the
\* table holds.
C35_OneWriterPerShift ==
    [][/\ \A s \in DOMAIN shifts :
             shifts'[s].assigned_guard # shifts[s].assigned_guard
                => shifts[s].assigned_guard = None
       /\ ReportedShifts(resp'["A"]) \cap ReportedShifts(resp'["B"]) = {}
       /\ \A p \in Procs : resp'[p].kind = "allocate" =>
             \A i \in 1..Len(resp'[p].assignments) :
                 shifts'[resp'[p].assignments[i].shift].assigned_guard
                    = resp'[p].assignments[i].guard]_vars

\* request A has committed shift 1; request B had read shift 1 as unassigned,
\* took the row lock after A's commit, found the guard and moved on without
\* writing
C35_Witness ==
    /\ resp["A"].kind = "allocate" /\ 1 \in ReportedShifts(resp["A"])
    /\ loc["B"].kind = "allocate"
    /\ Len(loc["B"].queue) >= 1 /\ loc["B"].queue[1] = 1
    /\ loc["B"].idx > 1
    /\ 1 \in loc["B"].locks
    /\ \A w \in loc["B"].writes : w.shift # 1
    /\ shifts[1].assigned_guard # None

\* C36: in every request to POST /api/allocate/, whatever limit_per_shift
\* was sent, the assignments made so far name each shift once and each
\* guard once, the limit in force is at least 1, and every shift the
\* request has written was without a guard in the table.
C36_OneGuardPerShiftPerRequest ==
    \A p \in Procs :
        /\ loc[p].kind = "allocate" =>
              /\ loc[p].limit_per_shift >= 1
              /\ \A i, j \in 1..Len(loc[p].assignments) :
                    i # j => /\ loc[p].assignments[i].shift # loc[p].assignments[j].shift
                             /\ loc[p].assignments[i].guard # loc[p].assignments[j].guard
              /\ \A w \in loc[p].writes : shifts[w.shift].assigned_guard = None
              /\ Cardinality(loc[p].writes) = Len(loc[p].assignments)
        /\ resp[p].kind = "allocate" =>
              \A i, j \in 1..Len(resp[p].assignments) :
                    i # j => /\ resp[p].assignments[i].shift # resp[p].assignments[j].shift
                             /\ resp[p].assignments[i].guard # resp[p].assignments[j].guard

\* a request with limit_per_shift = 2 is about to commit: it gave the two
\* open shifts of premise 1 to two different guards, one each
C36_Witness ==
    /\ pc["A"] = "av_commit"
    /\ loc["A"].limit_per_shift = 2
    /\ Len(loc["A"].assignments) = 2
    /\ {loc["A"].assignments[i].shift : i \in 1..2} = {1, 2}
    /\ {loc["A"].assignments[i].guard : i \in 1..2} = {1, 2}

\* two shifts of one date whose time ranges overlap, as guard_has_conflict
\* compares them
Overlapping(sh, x, y) ==
    /\ x # y /\ sh[x].date = sh[y].date
    /\ ~(sh[x].end_time <= sh[y].start_time \/ sh[x].start_time >= sh[y].end_time)

NoOverlapHeld(sh) ==
    \A x, y \in DOMAIN sh :
        (Overlapping(sh, x, y) /\ sh[x].assigned_guard # None)
           => sh[x].assigned_guard # sh[y].assigned_guard

\* C37: whatever the interleaving of two POST /api/allocate/ requests for
\* different premises on the same date, no step leads from a table in which
\* no guard holds two overlapping shifts of a date to one in which a guard
\* does.
C37_NoOverlapAcrossPremises ==
    [][NoOverlapHeld(shifts) => NoOverlapHeld(shifts')]_vars

\* C38: when run_allocation_for_day(D) is run again right after a run for
\* D, no step of the second run changes the table, and the second run
\* returns assigned = 0, already_assigned for exactly the shifts that carry
\* a guard and no_candidates for exactly the shifts the first run reported
\* as no_candidates.
C38_SecondRunIsFixpoint ==
    [][pc["B"] # "idle" =>
         /\ shifts' = shifts
         /\ resp'["B"] # NoResp =>
              /\ resp'["B"].kind = "alloc_day"
              /\ resp'["B"].assigned = 0
              /\ \A s \in DayShifts(shifts, RunDate) :
                    /\ resp'["B"].shifts[s] = "already_assigned"
                          <=> shifts[s].assigned_guard # None
                    /\ resp'["B"].shifts[s] = "no_candidates"
                          <=> resp'["A"].shifts[s] = "no_candidates"]_vars

\* the first run assigned a shift and left another without candidates; the
\* second run has returned and reports the one as already assigned and the
\* other again as no_candidates
C38_Witness ==
    /\ resp["A"].kind = "alloc_day" /\ resp["B"].kind = "alloc_day"
    /\ \E s, x \in RunIds :
          /\ resp["A"].shifts[s] = "assigned" /\ resp["B"].shifts[s] = "already_assigned"
          /\ resp["A"].shifts[x] = "no_candidates" /\ resp["B"].shifts[x] = "no_candidates"
          /\ shifts[x].assigned_guard = None
    /\ resp["B"].assigned = 0

\* C39: every assignment event published by POST /api/allocate/ is for an
\* assignment that the table holds, or that a transaction still open is
\* going to commit: nobody has been told of a shift that was rolled back.
C39_NotifiedIsCommitted ==
    \A m \in sent : m.kind = "assignment.created" =>
        \/ shifts[m.ref].assigned_guard = m.topic[2]
        \/ \E p \in Procs :
              /\ loc[p].kind = "allocate"
              /\ \E w \in loc[p].writes : w.shift = m.ref /\ w.guard = m.topic[2]

\* the number of consecutive days ending at d - 1 on each of which g holds
\* an assignment
FullStreak(sh, g, d) ==
    LET S == {n \in 0..Horizon : StreakOf(sh, g, d, n)}
    IN CHOOSE n \in S : \A m \in S : m <= n

\* the table without the assignments dated d or later
Before(sh, d) ==
    [s \in DOMAIN sh |->
        IF sh[s].date >= d THEN [sh[s] EXCEPT !.assigned_guard = None] ELSE sh[s]]

\* C40: for every guard g, _consecutive_days_before(g, D) returns
\* min(s, MAX_CONSECUTIVE_DAYS), s being g's streak of assigned days ending
\* at D - 1, after min(s, MAX_CONSECUTIVE_DAYS) existence checks that found
\* a row and, when s is below the cap, one that found none; assignments
\* dated D or later have no part in the result.
C40_StreakWalkBounded ==
    \A g \in Users :
        LET s == FullStreak(shifts, g, RunDate)
            n == _consecutive_days_before(shifts, g, RunDate)
        IN /\ n = Min(s, MAX_CONSECUTIVE_DAYS)
           /\ ConsecChecks(shifts, g, RunDate - 1, 0)
                 = n + (IF s < MAX_CONSECUTIVE_DAYS THEN 1 ELSE 0)
           /\ ConsecChecks(shifts, g, RunDate - 1, 0) <= MAX_CONSECUTIVE_DAYS + 1
           /\ n = _consecutive_days_before(Before(shifts, RunDate), g, RunDate)

\* a run is scoring while guard 1 has worked every day of the history, one
\* more than the cap, and also holds a shift of the run date: the walk
\* stops at 6
C40_Witness ==
    /\ pc["A"] = "alloc_loop"
    /\ FullStreak(shifts, 1, RunDate) > MAX_CONSECUTIVE_DAYS
    /\ HasAssignmentOn(shifts, 1, RunDate)
    /\ _consecutive_days_before(shifts, 1, RunDate) = 6
    /\ ConsecChecks(shifts, 1, RunDate - 1, 0) = 6

============================================================================
